---- MODULE Spec2Model ----
(***************************************************************************)
(* FTA-Lite: the test-run orchestrator of src/app/api/run-task/route.ts.   *)
(*                                                                         *)
(* One run is the body of POST's ReadableStream start() callback: it       *)
(* creates the run directory, registers the abort listener, executes       *)
(* runTask (loops 1..loopCount, test cases in list order, retrieval ->     *)
(* rerank -> work model -> score model -> results.json) and closes the     *)
(* progress stream.  Every await of the code is a step of the model, so    *)
(* the client's abort (an environment step) can fall between any two.      *)
(*                                                                         *)
(* Filesystem calls (mkdir, appendFile, writeFile) are taken to succeed    *)
(* and writeFile to replace the file's content in one step.  Timings and   *)
(* token counts are not modelled beyond "a usage record is present".       *)
(*                                                                         *)
(* More parts of the program have a specification of their own,            *)
(* each over the same variables with the other parts at rest:              *)
(*   SpecDb        getDbInstance and its instance pool (lib/db/index.ts),  *)
(*                 with calls that interleave at their awaits;             *)
(*   SpecStore     the test-case store route (add, edit, delete) and the   *)
(*                 promotion route, on the store file and the result       *)
(*                 directories;                                            *)
(*   SpecAnalysis  the analyze-results route for one loop, all loops or   *)
(*                 the frameworks of a run directory, and the totals the   *)
(*                 page computes;                                          *)
(*   SpecChunker   universalChunker (lib/db/core/chunker.ts) applied to    *)
(*                 texts of a few paragraphs;                              *)
(*   SpecSeed      GoogleFileSearch.seed on a knowledge directory, with    *)
(*                 the remote indexing as the environment (SpecSeedFair    *)
(*                 adds that the seed goes on while it has a step);        *)
(*   SpecBackend   queryDocuments and migrate of the three backends on     *)
(*                 their stores;                                           *)
(*   SpecRerank    rerankDocuments on an answer of the rerank service and  *)
(*                 the context runTask assembles from it;                  *)
(*   SpecVectorize the vectorize-knowledge route on the hosted store, with *)
(*                 requests that interleave at their awaits;               *)
(*   SpecReseed    seed of the PostgreSQL and the Chroma backend called    *)
(*                 again on the same directory;                            *)
(*   SpecTwoRuns   the run directories and the files of runs that go on    *)
(*                 side by side.                                           *)
(***************************************************************************)
EXTENDS Integers, Sequences, FiniteSets, TLC

\* ------------------------------------------------------------------ bounds
\* the largest number of (loop, test case) pairs of a run: the runs of the
\* model are those with loopCount * testCases.length <= MaxTasks
MaxTasks == 4
\* the largest number of chunks the vector store returns in the model
\* (the code asks for topK = 10; the context takes at most TopN of them)
MaxChunks == 4

\* the largest number of getDbInstance calls of a behaviour
MaxDbCalls == 2

\* the largest number of add, edit and delete requests of a behaviour
MaxStoreRequests == 2
\* the number of test cases of the question set the stored runs were made of
MaxCases == 2

\* the paragraphs of a text given to universalChunker
MaxParas == 7

\* the files of the knowledge directory that is seeded
MaxFiles == 2

\* the rounds of the indexing loop that are counted
MaxPolls == 2

\* the chunks a backend's store holds before the calls
MaxStored == 3

\* the largest topK of a query
MaxTopK == 2

\* the calls of queryDocuments and migrate of a behaviour
MaxBackendCalls == 3

\* the documents given to rerankDocuments
MaxDocs == 4

\* the results of an answer of the rerank service
MaxResults == 4

\* the vectorize requests that are handled at the same time
MaxVectorize == 2

\* the chunks of a directory that is seeded
MaxDirChunks == 2

\* the seed() calls of a behaviour
MaxSeedCalls == 3

\* the runs that go on side by side, and the moves of the clock
MaxRuns == 2

MaxTicks == 3

\* getSeconds: the milliseconds of a second
MsPerSecond == 1000

\* ------------------------------------------------------- program constants
\* score || 10 of the test-case store
DefaultScore == 10
\* safeModelCall's default retry budget
DefaultRetries == 2
\* topN_rerank
TopNRerank == 3
\* relevantChunks.slice(0, 3) of the fallback
FallbackTopN == 3
\* SIMILARITY_THRESHOLD = 0.8, in tenths
SimilarityThreshold == 8
\* testCase.score of every test case of the model's question set
CaseMaxScore == 2

\* ------------------------------------------------------------ the inputs
\* config.testCases for a question set of n cases: ids 1..n in list order
TestCasesOf(n) == [i \in 1..n |-> [id |-> i, score |-> CaseMaxScore]]

\* the (loopCount, testCases.length) pairs of the runs of the model
RunConfigs ==
    { c \in (0..MaxTasks) \X (0..MaxTasks) : c[1] * c[2] <= MaxTasks }

\* what one handleChat call can do: return a result whose content is a
\* string, return something else, or raise
ChatOutcomes == {"content", "malformed", "throw"}

\* the texts a score model answers with, as character sequences
ScoreContents == { <<"2">>, <<"a", "3", "b", "1">> }

\* rerank scores in tenths: below, at and above the threshold
RerankScores == {7, 8}

Digits == {"0", "1", "2", "3", "4", "5", "6", "7", "8", "9"}

DigitVal(c) ==
    CASE c = "0" -> 0 [] c = "1" -> 1 [] c = "2" -> 2 [] c = "3" -> 3
      [] c = "4" -> 4 [] c = "5" -> 5 [] c = "6" -> 6 [] c = "7" -> 7
      [] c = "8" -> 8 [] c = "9" -> 9

\* --------------------------------------------------------------- helpers
Last(s) == s[Len(s)]

Min(a, b) == IF a < b THEN a ELSE b

\* Array.prototype.slice(0, n)
Slice0(s, n) == SubSeq(s, 1, Min(n, Len(s)))

\* the placeholder answer of a case whose work call failed
Placeholder == "N/A"

\* the error of a SafeCallResult that succeeded (the field is undefined)
NoError == "undefined"

\* the content of a result that carries none (the field is undefined)
NoContent == "undefined"

\* the prompt that is only testCase.question
RawQuestion == <<>>

VARIABLES
    loopCount,      \* config.testConfig.loopCount
    testCases,      \* config.testCases
    pc,             \* position of the run in start()/runTask
    aborted,        \* request.signal.aborted
    isAborted,      \* the isAborted flag of start()
    listenerOn,     \* abortListener is registered on request.signal
    events,         \* what sendEvent has enqueued on the stream, in order
    closed,         \* controller.close() has run
    loop,           \* runTask's loop counter
    idx,            \* position of testCase in config.testCases
    currentTask,    \* runTask's currentTask counter
    qaResults,      \* the loop's accumulated array
    files,          \* files[l]: content of <run>/<l>/results.json
    retrieval,      \* how the retrieval block of the case went
    relevantChunks, \* number of chunks queryDocuments returned
    augmentedPrompt,\* chunk indexes of the prompt's context, <<>> = question
    attempt,        \* safeModelCall's i
    callsMade,      \* handleChat calls of the current safeModelCall
    workResult,     \* SafeCallResult of the work call
    scoreResult,    \* SafeCallResult of the score call
    modelAnswer,    \* runTask's modelAnswer
    score,          \* runTask's score
    cancelObserved, \* a cancellation check has seen the flag set
    \* history variables, read by no guard
    observedEvents, \* events when the flag was first seen set
    abortSnapshot,  \* where the run was, files, events and calls at the abort
    loopStartFiles  \* files when the loop counter last changed

\* the state of lib/db/index.ts (the instance pool of getDbInstance)
VARIABLES
    dbEnv,          \* process.env: DATABASE_TYPE and EMBEDDING_MODEL_TYPE
    dbInstancePool, \* global.dbInstancePool: cache key -> instance
    dbCalls,        \* the getDbInstance calls begun so far, in order
    dbInstances,    \* the DataAccess objects constructed so far, in order
    \* history variable, read by no guard
    dbOverlap       \* some call began while another one was in flight

\* the files of the test-case store route, of the promotion route and of
\* the result directories they work on
VARIABLES
    questions,      \* template/questions/test_cases.json
    storeReqs,      \* the add, edit and delete requests begun so far
    promo,          \* the promotion request
    resultDirs,     \* output/result: directory -> loop name -> results.json
    \* history variables, read by no guard
    assignedIds,    \* the ids given to test cases so far, in order
    storeOverlap,   \* a request read the store while another was in flight
    promoStart      \* questions and resultDirs when the promotion began

\* the analysis of a run directory: the analyze-results route and the
\* page that shows its answer
VARIABLES
    analysis,       \* the request to the analyze-results route
    loopResults     \* the page's loopResults state

\* the library functions that are checked on their own
VARIABLES
    chunker         \* a call of universalChunker: its text and its answer

\* the hosted backend (GoogleFileSearch), its remote store and the
\* knowledge directory it seeds from
VARIABLES
    knowledge,      \* the knowledge directory and the project.md beside it
    gStore,         \* the instance's storeName and the remote stores
    seed,           \* the seed call
    \* history variable, read by no guard
    seedLog         \* the uploads and waits of the seed call

\* the stores of the self-hosted backends and a call of queryDocuments or
\* migrate on one backend
VARIABLES
    pgDb,           \* PostgreSQL: the two tables and the chunk rows
    chromaDb,       \* ChromaDB: the instance's collection and the server's
    backendCall,    \* the backend, the last call and its answer
    \* history variable, read by no guard
    migrations      \* the store as the migrate() calls that returned one
                    \* after the other left it

\* retrieval of the run-task route taken by itself
VARIABLES
    rerankCall      \* a call of rerankDocuments and the context made of it

\* requests and calls that are checked with others of their kind
VARIABLES
    vectorize,      \* the requests to the vectorize-knowledge route
    seedings,       \* seed() called again: the directory, the calls, the
                    \* store as each call left it
    twoRuns         \* the clock and the run directories of concurrent runs

\* the variables of the run-task route
runVars == <<loopCount, testCases, pc, aborted, isAborted, listenerOn, events,
             closed, loop, idx, currentTask, qaResults, files, retrieval,
             relevantChunks, augmentedPrompt, attempt, callsMade, workResult,
             scoreResult, modelAnswer, score, cancelObserved, observedEvents,
             abortSnapshot, loopStartFiles>>

dbVars == <<dbEnv, dbInstancePool, dbCalls, dbInstances, dbOverlap>>

storeVars == <<questions, storeReqs, promo, resultDirs, assignedIds,
               storeOverlap, promoStart>>

analysisVars == <<analysis, loopResults>>

googleVars == <<knowledge, gStore, seed, seedLog>>

backendVars == <<pgDb, chromaDb, backendCall, migrations>>

pairVars == <<vectorize, seedings, twoRuns>>

libVars == <<chunker, googleVars, backendVars, rerankCall, pairVars>>

\* what a run of the run-task route leaves alone
otherRoutes == <<dbVars, storeVars, analysisVars, libVars>>

\* what getDbInstance leaves alone
notDb == <<runVars, storeVars, analysisVars, libVars>>

\* what the test-case store and the promotion leave alone
notStore == <<runVars, dbVars, analysisVars, libVars>>

\* what the analysis leaves alone
notAnalysis == <<runVars, dbVars, storeVars, libVars>>

\* what universalChunker leaves alone
notChunker == <<runVars, dbVars, storeVars, analysisVars, googleVars,
               backendVars, rerankCall, pairVars>>

\* what the hosted backend leaves alone
notSeed == <<runVars, dbVars, storeVars, analysisVars, chunker, backendVars,
            rerankCall, pairVars>>

\* what queryDocuments and migrate leave alone
notBackend == <<runVars, dbVars, storeVars, analysisVars, chunker, knowledge,
               seed, seedLog, rerankCall, pairVars>>

\* what rerankDocuments and the context assembly leave alone
notRerank == <<runVars, dbVars, storeVars, analysisVars, chunker, googleVars,
              backendVars, pairVars>>

\* what the vectorize-knowledge route leaves alone
notVectorize == <<runVars, dbVars, storeVars, analysisVars, chunker,
                 knowledge, seed, seedLog, backendVars, rerankCall, seedings,
                 twoRuns>>

\* what a repeated seed leaves alone
notSeedings == <<runVars, dbVars, storeVars, analysisVars, chunker,
                googleVars, backendCall, migrations, rerankCall, vectorize,
                twoRuns>>

\* what the start of concurrent runs leaves alone
notTwoRuns == <<runVars, dbVars, storeVars, analysisVars, chunker,
               googleVars, backendVars, rerankCall, vectorize, seedings>>

vars == <<runVars, otherRoutes>>

\* ------------------------------------------------------------ safeModelCall
\* safeModelCall with the last-attempt test off by one (i === retries + 1):
\* a failed third call is followed by a fourth
SafeCallIterationOneMore(i, retries, outcome, content) ==
    IF outcome = "content"
    THEN [returned |-> TRUE, raised |-> FALSE,
          result |-> [success |-> TRUE, content |-> content,
                      hasUsage |-> TRUE, error |-> NoError]]
    ELSE IF i = retries + 1
         THEN [returned |-> TRUE, raised |-> FALSE,
               result |-> [success |-> FALSE, content |-> NoContent,
                           hasUsage |-> FALSE,
                           error |-> IF outcome = "malformed"
                                     THEN "unexpected format"
                                     ELSE "critical error"]]
         ELSE [returned |-> FALSE, raised |-> FALSE,
               result |-> [success |-> FALSE, content |-> NoContent,
                           hasUsage |-> FALSE, error |-> "pending"]]

\* One iteration i of safeModelCall's for loop, given what handleChat did:
\* the call returns (returned = TRUE) with a SafeCallResult, or the loop
\* goes on to iteration i + 1.
SafeCallIteration(i, retries, outcome, content) ==
    IF outcome = "content"
    THEN [returned |-> TRUE, raised |-> FALSE,
          result |-> [success |-> TRUE, content |-> content,
                      hasUsage |-> TRUE, error |-> NoError]]
    ELSE IF i = retries
         THEN [returned |-> TRUE, raised |-> FALSE,
               result |-> [success |-> FALSE, content |-> NoContent,
                           hasUsage |-> FALSE,
                           error |-> IF outcome = "malformed"
                                     THEN "unexpected format"
                                     ELSE "critical error"]]
         ELSE [returned |-> FALSE, raised |-> FALSE,
               result |-> [success |-> FALSE, content |-> NoContent,
                           hasUsage |-> FALSE, error |-> "pending"]]

\* the SafeCallResult variables before the call has returned
NoResult ==
    [success |-> FALSE, content |-> NoContent, hasUsage |-> FALSE,
     error |-> "pending"]

\* ------------------------------------------------------------ score parsing
RECURSIVE DropNonDigits(_)
DropNonDigits(s) ==
    IF s = <<>> THEN <<>>
    ELSE IF Head(s) \in Digits THEN s ELSE DropNonDigits(Tail(s))

RECURSIVE TakeDigits(_)
TakeDigits(s) ==
    IF s = <<>> THEN <<>>
    ELSE IF Head(s) \in Digits THEN <<Head(s)>> \o TakeDigits(Tail(s)) ELSE <<>>

RECURSIVE ParseInt(_)
ParseInt(ds) ==
    IF ds = <<>> THEN 0
    ELSE 10 * ParseInt(SubSeq(ds, 1, Len(ds) - 1)) + DigitVal(Last(ds))

\* parseInt(content.trim().match(/\d+/)?.[0] || '0', 10)
ParseScore(content) == ParseInt(TakeDigits(DropNonDigits(content)))

\* ------------------------------------------------------- context assembly
\* relevantChunks as the list of chunk indexes 0..n-1, in the store's order
RawChunks(n) == [i \in 1..n |-> i - 1]

\* the answers of the rerank service for n documents, as its contract
\* gives them: up to n results, each naming a distinct input index, in
\* descending order of score
RECURSIVE RerankResultsOfLen(_, _)
RerankResultsOfLen(n, k) ==
    IF k = 0 THEN { <<>> }
    ELSE UNION { { Append(r, [index |-> i, score |-> sc]) :
                     i \in { j \in 0..(n - 1) :
                               \A a \in 1..Len(r) : r[a].index # j },
                     sc \in { x \in RerankScores :
                                Len(r) = 0 \/ x <= Last(r).score } } :
                 r \in RerankResultsOfLen(n, k - 1) }

RerankResults == [n \in 0..MaxChunks |->
                    UNION { RerankResultsOfLen(n, k) : k \in 0..n }]

RECURSIVE FilterByThreshold(_)
FilterByThreshold(chunks) ==
    IF chunks = <<>> THEN <<>>
    ELSE IF Head(chunks).similarity >= SimilarityThreshold
         THEN <<Head(chunks)>> \o FilterByThreshold(Tail(chunks))
         ELSE FilterByThreshold(Tail(chunks))

\* finalChunks without the slice(0, topN_rerank)
FinalChunksUncut(rerankedResults) ==
    [k \in 1..Len(rerankedResults) |->
        [chunk |-> rerankedResults[k].index,
         similarity |-> rerankedResults[k].score]]

\* finalChunks: the first topN_rerank reranked results, each the original
\* chunk with the rerank score as its similarity
FinalChunks(rerankedResults) ==
    LET top == Slice0(rerankedResults, TopNRerank)
    IN  [k \in 1..Len(top) |->
            [chunk |-> top[k].index, similarity |-> top[k].score]]

\* finalContextChunks after the threshold filter and the fallback to the
\* first raw chunks, as the list of chunk indexes that make the context
FinalContextChunks(n, rerankedResults) ==
    LET kept == FilterByThreshold(FinalChunks(rerankedResults))
    IN  IF Len(kept) = 0 /\ n > 0
        THEN Slice0(RawChunks(n), FallbackTopN)
        ELSE [k \in 1..Len(kept) |-> kept[k].chunk]

\* ------------------------------------------------------------ the stream
\* an event frame: its kind and, for an error event, its message (the texts
\* of the other kinds are not modelled)
Event(type, msg) == [type |-> type, msg |-> IF type = "error" THEN msg ELSE ""]

\* totalTasks counted as one task for each test case of each loop
TotalTasksOneEach(n, loops) == n * loops

\* totalTasks = (config.testCases.length * 2) * config.testConfig.loopCount
TotalTasks(n, loops) == (n * 2) * loops

\* (currentTask / totalTasks) * 100, kept as the fraction num / den
Progress(task, total) == [num |-> task * 100, den |-> total]

\* an update event: its payload's currentTask and progress
UpdateEvent(task, total) ==
    [type |-> "update", msg |-> "", currentTask |-> task,
     progress |-> Progress(task, total)]

ProgressTypes == {"log", "update", "state_update", "token_usage"}
TerminalTypes == {"done", "error"}

\* sendEvent
SendEvent(evs, ev) == Append(evs, ev)

\* a cancellation test that never sees the abort (what runTask's default
\* isCancelled, () => false, answers)
CancelledNever(isA, sigA) == FALSE

\* isAborted || request.signal.aborted
Cancelled(isA, sigA) == isA \/ sigA

\* a progress callback that enqueues without looking at the flag
OnProgressUnchecked(evs, ev, isA, sigA) ==
    [thrown |-> "none", events |-> SendEvent(evs, ev)]

\* the callback start() hands to runTask as onProgress: it raises the
\* cancellation error when the flag is set, and enqueues the event otherwise
OnProgress(evs, ev, isA, sigA) ==
    IF Cancelled(isA, sigA)
    THEN [thrown |-> "cancel", events |-> evs]
    ELSE [thrown |-> "none", events |-> SendEvent(evs, ev)]

\* onProgress for each event of a list, stopping at the first that raises
RECURSIVE OnProgressAll(_, _, _, _)
OnProgressAll(evs, list, isA, sigA) ==
    IF list = <<>> THEN [thrown |-> "none", events |-> evs]
    ELSE LET r == OnProgress(evs, Head(list), isA, sigA)
         IN  IF r.thrown # "none" THEN r
             ELSE OnProgressAll(r.events, Tail(list), isA, sigA)

\* the catch block of start(): the event sent for an error raised by runTask
CatchEvent(thrown) ==
    IF thrown = "cancel"
    THEN Event("error", "cancelled by user")
    ELSE Event("error", "other")

\* ------------------------------------------------------------- the run
flags == <<aborted, isAborted>>
position == <<loop, idx>>
retrievalLocals == <<retrieval, relevantChunks, augmentedPrompt>>
callLocals == <<attempt, callsMade>>
caseResults == <<workResult, scoreResult, modelAnswer, score>>
config == <<loopCount, testCases>>
observation == <<cancelObserved, observedEvents>>
history == <<abortSnapshot, loopStartFiles>>
disk == <<qaResults, files>>

\* the undefined (or empty) value of an optional string
Undefined == ""

\* no getDbInstance call has been made
DbIdle ==
    /\ dbEnv = [DATABASE_TYPE |-> Undefined, EMBEDDING_MODEL_TYPE |-> Undefined]
    /\ dbInstancePool = << >>
    /\ dbCalls = << >>
    /\ dbInstances = << >>
    /\ dbOverlap = FALSE

\* the promotion request before it arrives
PromoIdle ==
    [pc |-> "idle", questionId |-> 0, modelAnswer |-> Undefined,
     loop |-> << >>, directory |-> Undefined, maxScore |-> 0,
     testCases |-> << >>, loops |-> << >>, pos |-> 0, status |-> 0]

\* no request to the test-case store or to the promotion route is modelled
StoreIdle ==
    /\ questions = << >>
    /\ storeReqs = << >>
    /\ promo = PromoIdle
    /\ resultDirs = << >>
    /\ assignedIds = << >>
    /\ storeOverlap = FALSE
    /\ promoStart = [questions |-> << >>, resultDirs |-> << >>]

\* the analysis request before it is sent
AnalysisIdle ==
    [pc |-> "idle", directory |-> Undefined, loop |-> << >>, loops |-> << >>,
     pos |-> 0, allResults |-> << >>, success |-> FALSE, results |-> << >>,
     isAllLoops |-> FALSE, frameworkScores |-> << >>]

\* the page's loopResults before an analysis
NoLoopResults ==
    [shown |-> FALSE, totalScore |-> 0, maxPossibleScore |-> 0,
     averageScore |-> [num |-> 0, den |-> 0], totalQuestions |-> 0]

\* no analysis is modelled
AnalysisOff ==
    /\ analysis = AnalysisIdle
    /\ loopResults = NoLoopResults

\* a call of universalChunker before it is made
ChunkerIdle ==
    [pc |-> "idle", content |-> << >>, strategy |-> 0, chunks |-> << >>]

\* universalChunker is not called
ChunkerOff == chunker = ChunkerIdle

\* A file name is a record [base, ext]: the characters of the name without
\* its extension, and the extension.
FileName(base, ext) == [base |-> base, ext |-> ext]

\* the seed call before it is made
SeedIdle ==
    [pc |-> "idle", files |-> << >>, pos |-> 0,
     fileName |-> FileName(<< >>, Undefined), attempts |-> 0,
     uploadSuccess |-> FALSE]

\* what the seed has done so far
NoSeedLog ==
    [uploads |-> << >>, waited |-> 0, polls |-> 0, succeeded |-> {}]

\* storeName = null; the stores the service creates are named
\* fileSearchStores/1, fileSearchStores/2, ...
NoStore == 0

\* the instance and the service with the remote stores: a store is a
\* record [name, displayName, docs]
GoogleOf(storeName, stores) ==
    [storeName |-> storeName, stores |-> stores, created |-> Len(stores),
     operation |-> "none"]

\* the hosted backend is not used
GoogleOff ==
    /\ knowledge = [files |-> {},
                    projectMd |-> [exists |-> FALSE, refs |-> {}]]
    /\ gStore = GoogleOf(NoStore, << >>)
    /\ seed = SeedIdle
    /\ seedLog = NoSeedLog

\* a backend call before it is made
BackendIdle ==
    [backend |-> Undefined, op |-> "none", result |-> "none", topK |-> 0,
     answer |-> << >>, calls |-> 0]

\* PostgreSQL without the tables
NoTables == [tables |-> FALSE, chunks |-> << >>]

\* ChromaDB without the collection
NoCollection == [collection |-> FALSE, exists |-> FALSE, docs |-> << >>]

\* no backend is called
BackendOff ==
    /\ pgDb = NoTables
    /\ chromaDb = NoCollection
    /\ backendCall = BackendIdle
    /\ migrations = << >>

\* a rerank call before it is made
RerankIdle ==
    [pc |-> "idle", documents |-> 0,
     response |-> [ok |-> FALSE, results |-> << >>],
     rerankedResults |-> << >>, context |-> << >>]

RerankOff == rerankCall = RerankIdle

\* neither the chunker nor a backend is checked on its own
NoRequests == << >>

NoSeedings ==
    [backend |-> Undefined, dir |-> << >>, calls |-> 0, left |-> << >>]

\* no run: the results.json that nobody has written
NoRun == 0

NoRuns == [clock |-> 0, ticks |-> 0, runs |-> << >>, dirs |-> << >>]

\* nothing is checked in pairs
PairsOff ==
    /\ vectorize = NoRequests
    /\ seedings = NoSeedings
    /\ twoRuns = NoRuns

LibIdle == ChunkerOff /\ GoogleOff /\ BackendOff /\ RerankOff /\ PairsOff

\* the state of the other routes while a run is modelled
OtherRoutesIdle == DbIdle /\ StoreIdle /\ AnalysisOff /\ LibIdle

\* the state of a run before start() for the configuration c
RunInit(c) ==
    /\ loopCount = c[1]
    /\ testCases = TestCasesOf(c[2])
    /\ files = [l \in 1..c[1] |-> <<>>]
    /\ pc = "start"
    /\ aborted = FALSE
    /\ isAborted = FALSE
    /\ listenerOn = FALSE
    /\ events = <<>>
    /\ closed = FALSE
    /\ loop = 0
    /\ idx = 0
    /\ currentTask = 0
    /\ qaResults = <<>>
    /\ retrieval = "none"
    /\ relevantChunks = 0
    /\ augmentedPrompt = RawQuestion
    /\ attempt = 0
    /\ callsMade = 0
    /\ workResult = NoResult
    /\ scoreResult = NoResult
    /\ modelAnswer = Placeholder
    /\ score = 0
    /\ cancelObserved = FALSE
    /\ observedEvents = <<>>
    /\ abortSnapshot = [at |-> "none", files |-> <<>>, events |-> <<>>,
                        call |-> "none", calls |-> 0]
    /\ loopStartFiles = <<>>

\* no run is modelled
RunIdle == RunInit(<<0, 0>>)

Init ==
    /\ \E c \in RunConfigs : RunInit(c)
    /\ OtherRoutesIdle

\* An error leaves runTask: start()'s catch sends the error event and the
\* finally block closes the stream.
Raise(thrown, evs) ==
    /\ events' = SendEvent(evs, CatchEvent(thrown))
    /\ closed' = TRUE
    /\ pc' = "closed"
    /\ cancelObserved' = (cancelObserved \/ thrown = "cancel")
    /\ observedEvents' = IF thrown = "cancel" /\ ~cancelObserved
                         THEN evs ELSE observedEvents

\* the positions between two test cases: the pause after a write, the start
\* of the next case, the head of the next loop
BetweenCases == {"sleep", "case_begin", "loop_head"}

\* where a position lies in the run: before runTask, between two test
\* cases, or elsewhere
Phase(p) ==
    IF p \in {"start", "created"} THEN "before runTask"
    ELSE IF p \in BetweenCases THEN "between cases"
    ELSE "elsewhere"

\* the safeModelCall a position lies in: from the cancellation check
\* before the call to its return
CallOf(p) ==
    IF p = "work_call" THEN "work"
    ELSE IF p = "score_call" THEN "score"
    ELSE "none"

\* The client aborts the request: the signal turns aborted and the listener,
\* if registered, sets isAborted.
Abort ==
    /\ pc # "closed"
    /\ ~aborted
    /\ aborted' = TRUE
    /\ isAborted' = (isAborted \/ listenerOn)
    /\ abortSnapshot' = [at |-> Phase(pc), files |-> files, events |-> events,
                         call |-> CallOf(pc),
                         calls |-> IF CallOf(pc) = "none" THEN 0
                                   ELSE callsMade]
    /\ UNCHANGED <<otherRoutes, loopStartFiles, config, pc, listenerOn, events, closed, position, currentTask, disk,
                   retrievalLocals, callLocals, caseResults, observation>>

\* start(): mkdir of the run directory
CreateRunDir ==
    /\ pc = "start"
    /\ pc' = "created"
    /\ UNCHANGED <<otherRoutes, history, config, flags, listenerOn, events, closed, position, currentTask,
                   disk, retrievalLocals, callLocals, caseResults,
                   observation>>

\* start(): the first log event, the abort listener, and runTask up to its
\* outer loop
BeginRun ==
    /\ pc = "created"
    /\ listenerOn' = TRUE
    /\ LET evs == SendEvent(events, Event("log", "result dir created"))
           r == OnProgress(evs, Event("log", "loading project"),
                           isAborted, aborted)
       IN  IF r.thrown # "none"
           THEN Raise(r.thrown, r.events)
                /\ UNCHANGED <<loop, loopStartFiles>>
           ELSE /\ events' = r.events
                /\ pc' = "loop_head"
                /\ loop' = 1
                /\ loopStartFiles' = files
                /\ UNCHANGED <<closed, observation>>
    /\ UNCHANGED <<otherRoutes, abortSnapshot, config, flags, idx, currentTask, disk, retrievalLocals, callLocals,
                   caseResults>>

\* runTask: the head of the outer loop (the cancellation check, the loop
\* directory and its log file, the fresh qaResults), or runTask's return
LoopHead ==
    /\ pc = "loop_head"
    /\ IF loop > loopCount
       THEN /\ pc' = "returned"
            /\ UNCHANGED <<events, closed, observation, loop, idx,
                           qaResults, loopStartFiles>>
       ELSE IF Cancelled(isAborted, aborted)
       THEN Raise("cancel", events)
            /\ UNCHANGED <<loop, idx, qaResults, loopStartFiles>>
       ELSE /\ qaResults' = <<>>
            /\ IF Len(testCases) = 0
               THEN /\ loop' = loop + 1
                    /\ loopStartFiles' = files
                    /\ UNCHANGED <<idx, pc>>
               ELSE /\ idx' = 1
                    /\ pc' = "case_begin"
                    /\ UNCHANGED <<loop, loopStartFiles>>
            /\ UNCHANGED <<events, closed, observation>>
    /\ UNCHANGED <<otherRoutes, abortSnapshot, config, flags, listenerOn, currentTask,
                   files, retrievalLocals, callLocals, caseResults>>

\* runTask: the start of a test case, up to the call of getDbInstance
CaseBegin ==
    /\ pc = "case_begin"
    /\ currentTask' = currentTask + 1
    /\ score' = 0
    /\ modelAnswer' = Placeholder
    /\ workResult' = NoResult
    /\ scoreResult' = NoResult
    /\ LET r == OnProgressAll(events,
                    << UpdateEvent(currentTask + 1,
                                   TotalTasks(Len(testCases), loopCount)),
                       Event("log", "retrieving") >>,
                    isAborted, aborted)
       IN  IF r.thrown # "none"
           THEN Raise(r.thrown, r.events)
           ELSE /\ events' = r.events
                /\ pc' = "get_db"
                /\ UNCHANGED <<closed, observation>>
    /\ UNCHANGED <<otherRoutes, history, config, flags, listenerOn, position, disk,
                   retrievalLocals, callLocals>>

\* a retrieval step whose catch block raises the error again
RetrievalCatchRethrow(kind, evs) ==
    Raise("other", evs) /\ UNCHANGED <<retrieval, augmentedPrompt>>

\* the catch block of the retrieval step: a warning is logged and the
\* prompt falls back to the question
RetrievalCatch(kind, evs) ==
    LET r == OnProgress(evs, Event("log", "retrieval failed"),
                        isAborted, aborted)
    IN  IF r.thrown # "none"
        THEN Raise(r.thrown, r.events)
             /\ UNCHANGED <<retrieval, augmentedPrompt>>
        ELSE /\ events' = r.events
             /\ augmentedPrompt' = RawQuestion
             /\ retrieval' = kind
             /\ pc' = "pre_work"
             /\ UNCHANGED <<closed, observation>>

\* getDbInstance returns the store, or the store is not configured or
\* cannot be initialised
GetDb ==
    /\ pc = "get_db"
    /\ \E ok \in BOOLEAN :
         IF ok
         THEN /\ pc' = "query"
              /\ UNCHANGED <<events, closed, observation, retrieval,
                             augmentedPrompt>>
         ELSE RetrievalCatch("db failed", events)
    /\ UNCHANGED <<otherRoutes, history, config, flags, listenerOn, position, currentTask, disk,
                   relevantChunks, callLocals, caseResults>>

\* db.queryDocuments returns n chunks or raises
QueryDocuments ==
    /\ pc = "query"
    /\ \/ /\ \E n \in 0..MaxChunks : relevantChunks' = n
          /\ pc' = "rerank"
          /\ UNCHANGED <<events, closed, observation, retrieval,
                         augmentedPrompt>>
       \/ /\ RetrievalCatch("query failed", events)
          /\ UNCHANGED relevantChunks
    /\ UNCHANGED <<otherRoutes, history, config, flags, listenerOn, position, currentTask, disk,
                   callLocals, caseResults>>

\* rerankDocuments returns (without a request when there is no document) or
\* raises; on its return the context of the prompt is assembled
Rerank ==
    /\ pc = "rerank"
    /\ \/ LET r == OnProgress(events, Event("log", "rerank done"),
                              isAborted, aborted)
          IN  IF r.thrown # "none"
              THEN RetrievalCatch("cancelled", r.events)
              ELSE /\ \E rerankedResults \in
                          (IF relevantChunks = 0 THEN { <<>> }
                           ELSE RerankResults[relevantChunks]) :
                        augmentedPrompt' =
                          FinalContextChunks(relevantChunks, rerankedResults)
                   /\ events' = r.events
                   /\ retrieval' = "ok"
                   /\ pc' = "pre_work"
                   /\ UNCHANGED <<closed, observation>>
       \/ /\ relevantChunks > 0
          /\ RetrievalCatch("rerank failed", events)
    /\ UNCHANGED <<otherRoutes, history, config, flags, listenerOn, position, currentTask,
                   disk, relevantChunks, callLocals, caseResults>>

\* runTask: the cancellation check before the work call and the question
\* appended to the log file
PreWork ==
    /\ pc = "pre_work"
    /\ IF Cancelled(isAborted, aborted)
       THEN Raise("cancel", events) /\ UNCHANGED <<callLocals, relevantChunks>>
       ELSE /\ pc' = "work_call"
            /\ attempt' = 0
            /\ callsMade' = 0
            /\ relevantChunks' = 0
            /\ UNCHANGED <<events, closed, observation>>
    /\ UNCHANGED <<otherRoutes, history, config, flags, listenerOn, position, currentTask, disk,
                   retrieval, augmentedPrompt, caseResults>>

\* one iteration of safeModelCall for the work model
WorkAttempt ==
    /\ pc = "work_call"
    /\ \E outcome \in ChatOutcomes :
         LET it == SafeCallIteration(attempt, DefaultRetries, outcome,
                      IF outcome = "content" THEN "answer" ELSE NoContent)
         IN  /\ callsMade' = callsMade + 1
             /\ IF it.raised
                THEN /\ Raise("other", events)
                     /\ UNCHANGED <<attempt, workResult, retrieval,
                                    augmentedPrompt>>
                ELSE IF it.returned
                THEN /\ workResult' = it.result
                     /\ pc' = "work_returned"
                     /\ retrieval' = "none"
                     /\ augmentedPrompt' = RawQuestion
                     /\ UNCHANGED <<attempt, events, closed, observation>>
                ELSE /\ attempt' = attempt + 1
                     /\ UNCHANGED <<workResult, pc, retrieval,
                                    augmentedPrompt, events, closed,
                                    observation>>
    /\ UNCHANGED <<otherRoutes, history, config, flags, listenerOn, position,
                   currentTask, disk, relevantChunks, scoreResult,
                   modelAnswer, score>>

\* resultEntry without the work call's error
ResultEntryNoError(testCase, answer, sc, err) ==
    [id |-> testCase.id, modelAnswer |-> answer, maxScore |-> testCase.score,
     score |-> sc, error |-> NoError]

\* resultEntry
ResultEntry(testCase, answer, sc, err) ==
    [id |-> testCase.id, modelAnswer |-> answer, maxScore |-> testCase.score,
     score |-> sc, error |-> err]

\* runTask: the end of a test case, from the second state_update to the
\* call of writeFile
FinishCase(evs, answer, sc, err) ==
    LET r == OnProgress(evs, Event("state_update", "score"),
                        isAborted, aborted)
    IN  IF r.thrown # "none"
        THEN Raise(r.thrown, r.events) /\ UNCHANGED qaResults
        ELSE /\ events' = r.events
             /\ qaResults' =
                  Append(qaResults, ResultEntry(testCases[idx], answer, sc, err))
             /\ pc' = "write"
             /\ UNCHANGED <<closed, observation>>

\* runTask after the work call has returned: the token usage, the answer or
\* the warning, then the answer appended to the log file
WorkReturned ==
    /\ pc = "work_returned"
    /\ LET r == OnProgressAll(events,
                    (IF workResult.hasUsage
                     THEN << Event("token_usage", "work") >> ELSE << >>)
                    \o (IF workResult.success
                        THEN << >> ELSE << Event("log", "answer failed") >>),
                    isAborted, aborted)
       IN  IF r.thrown # "none"
           THEN Raise(r.thrown, r.events) /\ UNCHANGED modelAnswer
           ELSE /\ events' = r.events
                /\ modelAnswer' = IF workResult.success
                                  THEN workResult.content ELSE modelAnswer
                /\ pc' = "work_logged"
                /\ UNCHANGED <<closed, observation>>
    /\ attempt' = 0
    /\ callsMade' = 0
    /\ UNCHANGED <<otherRoutes, history, config, flags, listenerOn, position, currentTask, disk,
                   retrievalLocals, workResult, scoreResult, score>>

\* runTask from the first state_update: on a successful answer up to the
\* call of the score model, otherwise to the end of the case
WorkLogged ==
    /\ pc = "work_logged"
    /\ currentTask' = currentTask + 1
    /\ LET r == OnProgressAll(events,
                    << Event("state_update", "answer") >>
                    \o (IF workResult.success
                        THEN << UpdateEvent(currentTask + 1,
                                            TotalTasks(Len(testCases),
                                                       loopCount)) >>
                        ELSE << >>),
                    isAborted, aborted)
       IN  IF r.thrown # "none"
           THEN Raise(r.thrown, r.events) /\ UNCHANGED qaResults
           ELSE IF workResult.success
           THEN IF Cancelled(isAborted, aborted)
                THEN Raise("cancel", r.events) /\ UNCHANGED qaResults
                ELSE /\ events' = r.events
                     /\ pc' = "score_call"
                     /\ UNCHANGED <<closed, observation, qaResults>>
           ELSE FinishCase(r.events, modelAnswer, score, workResult.error)
    /\ UNCHANGED <<otherRoutes, history, config, flags, listenerOn, position, files, retrievalLocals,
                   callLocals, caseResults>>

\* one iteration of safeModelCall for the score model
ScoreAttempt ==
    /\ pc = "score_call"
    /\ \E outcome \in ChatOutcomes :
       \E content \in (IF outcome = "content"
                       THEN ScoreContents ELSE { NoContent }) :
         LET it == SafeCallIteration(attempt, DefaultRetries, outcome, content)
         IN  /\ callsMade' = callsMade + 1
             /\ IF it.raised
                THEN /\ Raise("other", events)
                     /\ UNCHANGED <<attempt, scoreResult>>
                ELSE IF it.returned
                THEN /\ scoreResult' = it.result
                     /\ pc' = "score_returned"
                     /\ UNCHANGED <<attempt, events, closed, observation>>
                ELSE /\ attempt' = attempt + 1
                     /\ UNCHANGED <<scoreResult, pc, events, closed,
                                    observation>>
    /\ UNCHANGED <<otherRoutes, history, config, flags, listenerOn, position,
                   currentTask, disk, retrievalLocals, workResult,
                   modelAnswer, score>>

\* runTask after the score call has returned: the token usage, the parsed
\* score or the warning, then the end of the case
ScoreReturned ==
    /\ pc = "score_returned"
    /\ LET r == OnProgressAll(events,
                    (IF scoreResult.hasUsage
                     THEN << Event("token_usage", "score") >> ELSE << >>)
                    \o (IF scoreResult.success
                        THEN << >> ELSE << Event("log", "scoring failed") >>),
                    isAborted, aborted)
           sc == IF scoreResult.success
                 THEN ParseScore(scoreResult.content) ELSE score
       IN  IF r.thrown # "none"
           THEN Raise(r.thrown, r.events) /\ UNCHANGED <<qaResults, score>>
           ELSE /\ score' = sc
                /\ FinishCase(r.events, modelAnswer, sc, workResult.error)
    /\ attempt' = 0
    /\ callsMade' = 0
    /\ UNCHANGED <<otherRoutes, history, config, flags, listenerOn, position, currentTask, files,
                   retrievalLocals, workResult, scoreResult, modelAnswer>>

\* a write that appends the data to the file (appendFile for writeFile)
WriteFileAppend(fs, l, data) == [fs EXCEPT ![l] = fs[l] \o data]

\* writeFile: the file's content is replaced by the data
WriteFile(fs, l, data) == [fs EXCEPT ![l] = data]

\* writeFile of the loop's results.json: the whole of qaResults
WriteResults ==
    /\ pc = "write"
    /\ files' = WriteFile(files, loop, qaResults)
    /\ pc' = "sleep"
    /\ UNCHANGED <<otherRoutes, history, config, flags, listenerOn, events, closed, position, currentTask,
                   qaResults, retrievalLocals, callLocals, caseResults,
                   observation>>

\* the pause after a case with the case after the next one taken up (an
\* iteration that advances the list position twice)
SleepSkipsCase ==
    /\ pc = "sleep"
    /\ IF idx + 1 < Len(testCases)
       THEN /\ idx' = idx + 2
            /\ pc' = "case_begin"
            /\ UNCHANGED <<loop, loopStartFiles>>
       ELSE /\ loop' = loop + 1
            /\ loopStartFiles' = files
            /\ pc' = "loop_head"
            /\ UNCHANGED idx
    /\ UNCHANGED <<otherRoutes, abortSnapshot, config, flags, listenerOn, events, closed, currentTask, disk,
                   retrievalLocals, callLocals, caseResults, observation>>

\* the pause after a case, then the next case or the next loop
Sleep ==
    /\ pc = "sleep"
    /\ IF idx < Len(testCases)
       THEN /\ idx' = idx + 1
            /\ pc' = "case_begin"
            /\ UNCHANGED <<loop, loopStartFiles>>
       ELSE /\ loop' = loop + 1
            /\ loopStartFiles' = files
            /\ pc' = "loop_head"
            /\ UNCHANGED idx
    /\ UNCHANGED <<otherRoutes, abortSnapshot, config, flags, listenerOn, events, closed, currentTask, disk,
                   retrievalLocals, callLocals, caseResults, observation>>

\* start() after runTask has returned: the listener is removed, the done
\* event is sent unless the request is aborted, and the stream is closed
Finish ==
    /\ pc = "returned"
    /\ listenerOn' = FALSE
    /\ IF ~isAborted /\ ~aborted
       THEN /\ events' = SendEvent(events, Event("done", "all tasks done"))
            /\ UNCHANGED observation
       ELSE /\ cancelObserved' = TRUE
            /\ observedEvents' = IF cancelObserved
                                 THEN observedEvents ELSE events
            /\ UNCHANGED events
    /\ closed' = TRUE
    /\ pc' = "closed"
    /\ UNCHANGED <<otherRoutes, history, config, flags, position, currentTask, disk, retrievalLocals,
                   callLocals, caseResults>>

Next ==
    \/ Abort
    \/ CreateRunDir
    \/ BeginRun
    \/ LoopHead
    \/ CaseBegin
    \/ GetDb
    \/ QueryDocuments
    \/ Rerank
    \/ PreWork
    \/ WorkAttempt
    \/ WorkReturned
    \/ WorkLogged
    \/ ScoreAttempt
    \/ ScoreReturned
    \/ WriteResults
    \/ Sleep
    \/ Finish

Spec == Init /\ [][Next]_vars

\* ============================================== lib/db/index.ts: getDbInstance
\* the dbType arguments of the model: none, two backends of the switch and
\* one it does not know
DbTypes == {Undefined, "POSTGRES", "CHROMA", "MYSQL"}

\* the embeddingModel arguments of the model
EmbeddingModels == {Undefined, "m1", "m2"}

\* the environments of the model: nothing configured, or both defaults set
DbEnvs ==
    { [DATABASE_TYPE |-> Undefined, EMBEDDING_MODEL_TYPE |-> Undefined],
      [DATABASE_TYPE |-> "POSTGRES", EMBEDDING_MODEL_TYPE |-> "m1"] }

\* the cases of the switch
SupportedDbTypes == {"POSTGRES", "CHROMA", "GOOGLE"}

\* a || b on optional strings
OrElse(a, b) == IF a # Undefined THEN a ELSE b

\* a cache key made of the backend type alone
CacheKeyTypeOnly(effectiveDbType, effectiveEmbeddingModel) ==
    effectiveDbType

\* cacheKey = `${effectiveDbType}-${effectiveEmbeddingModel}`
CacheKey(effectiveDbType, effectiveEmbeddingModel) ==
    effectiveDbType \o "-" \o effectiveEmbeddingModel

\* the calls that are at one of their awaits
DbInFlight == { c \in 1..Len(dbCalls) : dbCalls[c].pc \in {"import", "init"} }

\* dbInstancePool.set(cacheKey, newInstance)
PoolSet(pool, key, instance) ==
    [k \in (DOMAIN pool) \cup {key} |->
        IF k = key THEN instance ELSE pool[k]]

\* getDbInstance(dbType, embeddingModel) up to its first await: the
\* configuration check, the cache lookup and the switch
DbCallBegin(dbType, embeddingModel) ==
    /\ Len(dbCalls) < MaxDbCalls
    /\ LET effectiveDbType == OrElse(dbType, dbEnv.DATABASE_TYPE)
           effectiveEmbeddingModel ==
               OrElse(embeddingModel, dbEnv.EMBEDDING_MODEL_TYPE)
           cacheKey == CacheKey(effectiveDbType, effectiveEmbeddingModel)
           call == [dbType |-> effectiveDbType,
                    embeddingModel |-> embeddingModel,
                    effectiveEmbeddingModel |-> effectiveEmbeddingModel,
                    cacheKey |-> cacheKey, newInstance |-> 0, result |-> 0]
       IN  dbCalls' = Append(dbCalls,
               IF effectiveDbType = Undefined
                  \/ effectiveEmbeddingModel = Undefined
               THEN [call EXCEPT !.cacheKey = Undefined] @@
                    [pc |-> "thrown", error |-> "not configured"]
               ELSE IF cacheKey \in DOMAIN dbInstancePool
               THEN [call EXCEPT !.result = dbInstancePool[cacheKey]] @@
                    [pc |-> "returned", error |-> NoError]
               ELSE IF effectiveDbType \in SupportedDbTypes
               THEN call @@ [pc |-> "import", error |-> NoError]
               ELSE call @@ [pc |-> "thrown", error |-> "unsupported"])
    /\ dbOverlap' = (dbOverlap \/ DbInFlight # {})
    /\ UNCHANGED <<notDb, dbEnv, dbInstancePool, dbInstances>>

\* the dynamic import has resolved: the backend object is constructed and
\* its init() is called
DbConstruct(c) ==
    /\ c \in 1..Len(dbCalls)
    /\ dbCalls[c].pc = "import"
    /\ dbInstances' = Append(dbInstances,
           [type |-> dbCalls[c].dbType,
            embeddingModel |-> dbCalls[c].embeddingModel,
            cacheKey |-> dbCalls[c].cacheKey,
            init |-> "pending"])
    /\ dbCalls' = [dbCalls EXCEPT ![c].pc = "init",
                                  ![c].newInstance = Len(dbInstances) + 1]
    /\ UNCHANGED <<notDb, dbEnv, dbInstancePool, dbOverlap>>

\* init() has settled: on success the instance is cached and returned, on
\* failure the error leaves getDbInstance
DbInitSettled(c, ok) ==
    /\ c \in 1..Len(dbCalls)
    /\ dbCalls[c].pc = "init"
    /\ LET newInstance == dbCalls[c].newInstance
       IN  IF ok
           THEN /\ dbInstances' = [dbInstances EXCEPT ![newInstance].init = "done"]
                /\ dbInstancePool' =
                     PoolSet(dbInstancePool, dbCalls[c].cacheKey, newInstance)
                /\ dbCalls' = [dbCalls EXCEPT ![c].pc = "returned",
                                              ![c].result = newInstance]
           ELSE /\ dbInstances' = [dbInstances EXCEPT ![newInstance].init = "failed"]
                /\ dbCalls' = [dbCalls EXCEPT ![c].pc = "thrown",
                                              ![c].error = "init failed"]
                /\ UNCHANGED dbInstancePool
    /\ UNCHANGED <<notDb, dbEnv, dbOverlap>>

InitDb ==
    /\ RunIdle
    /\ StoreIdle
    /\ AnalysisOff
    /\ LibIdle
    /\ dbEnv \in DbEnvs
    /\ dbInstancePool = << >>
    /\ dbCalls = << >>
    /\ dbInstances = << >>
    /\ dbOverlap = FALSE

NextDb ==
    \/ \E dbType \in DbTypes, embeddingModel \in EmbeddingModels :
         DbCallBegin(dbType, embeddingModel)
    \/ \E c \in 1..MaxDbCalls : DbConstruct(c)
    \/ \E c \in 1..MaxDbCalls, ok \in BOOLEAN : DbInitSettled(c, ok)

SpecDb == InitDb /\ [][NextDb]_vars

\* ===================== the test-case store route (add, edit, delete)
\* the store the question set of the runs was taken from: ids 1..n, each
\* with its reference answer and its max score
StoreOf(n) ==
    [i \in 1..n |-> [id |-> i, answer |-> "reference", score |-> CaseMaxScore]]

\* the score fields of the requests: none, or a max score other than the
\* one the runs were recorded with
RequestScores == {0, CaseMaxScore + 1}

\* score || 10
ScoreOrDefault(newScore) == IF newScore = 0 THEN DefaultScore ELSE newScore

RECURSIVE MaxOf(_)
\* Math.max(...ids) of a non-empty list
MaxOf(ids) ==
    IF Len(ids) = 1 THEN ids[1]
    ELSE LET m == MaxOf(Tail(ids))
         IN  IF ids[1] > m THEN ids[1] ELSE m

\* the ids of a list of test cases, in list order
IdsOf(qs) == [k \in 1..Len(qs) |-> qs[k].id]

\* an id taken from the length of the list
NewIdByLength(qs) == Len(qs) + 1

\* newId of the add action
NewId(qs) == IF Len(qs) > 0 THEN MaxOf(IdsOf(qs)) + 1 ELSE 1

\* case 'add'
AddCase(qs, answer, newScore) ==
    Append(qs, [id |-> NewId(qs), answer |-> answer,
                score |-> ScoreOrDefault(newScore)])

\* case 'edit'
EditCase(qs, id, answer, newScore) ==
    [k \in 1..Len(qs) |->
        IF qs[k].id = id
        THEN [qs[k] EXCEPT !.answer = answer, !.score = ScoreOrDefault(newScore)]
        ELSE qs[k]]

\* case 'delete'
DeleteCase(qs, id) == SelectSeq(qs, LAMBDA item : item.id # id)

\* the requests that have read the store and not yet written it
StoreInFlight ==
    { r \in 1..Len(storeReqs) : storeReqs[r].pc = "write" }

\* POST of the store route up to its writeFile call: the file is read and
\* the action applied to what was read.  The requests of a behaviour come
\* before its promotion request.
StoreRequest(action, id, answer, newScore) ==
    /\ Len(storeReqs) < MaxStoreRequests
    /\ promo.pc = "idle"
    /\ LET next == CASE action = "add" -> AddCase(questions, answer, newScore)
                     [] action = "edit" ->
                          EditCase(questions, id, answer, newScore)
                     [] action = "delete" -> DeleteCase(questions, id)
       IN  /\ storeReqs' = Append(storeReqs,
                [action |-> action, id |-> id, read |-> questions,
                 next |-> next, pc |-> "write"])
           /\ assignedIds' = IF action = "add"
                             THEN Append(assignedIds, Last(next).id)
                             ELSE assignedIds
    /\ storeOverlap' = (storeOverlap \/ StoreInFlight # {})
    /\ UNCHANGED <<notStore, questions, promo, resultDirs, promoStart>>

\* the writeFile of a request takes effect and the request is answered
StoreWrite(r) ==
    /\ r \in StoreInFlight
    /\ questions' = storeReqs[r].next
    /\ storeReqs' = [storeReqs EXCEPT ![r].pc = "done"]
    /\ UNCHANGED <<notStore, promo, resultDirs, assignedIds, storeOverlap,
                   promoStart>>

\* ================================================= the promotion route
\* the names of the loop directories of the model, as character sequences
LoopNames == { << "1" >>, << "2" >> }

\* the loop names in the order of their numbers
LoopNameOf(l) == IF l = 1 THEN << "1" >> ELSE IF l = 2 THEN << "2" >>
                 ELSE << "1", "0" >>

\* results.json as a run leaves it after n cases of the question set, the
\* first one scored 1 and the others 0
ResultsOf(n) ==
    [i \in 1..n |->
        ResultEntry(StoreOf(n)[i], "answer", IF i = 1 THEN 1 ELSE 0, NoError)]

\* a results.json that readFile and JSON.parse deliver
FileOf(results) == [state |-> "ok", results |-> results]

\* a results.json that is absent, or one that JSON.parse rejects
BadFile(state) == [state |-> state, results |-> << >>]

\* what a results.json of the model can be: absent, unparsable, the entry
\* of the first case (a loop that was cut short) or the entries of all
ResultFiles ==
    {BadFile("missing"), BadFile("corrupt")}
    \cup { FileOf(ResultsOf(n)) : n \in {1, MaxCases} }

\* the loop parameter 'all'
AllLoops == << "a", "l", "l" >>

\* the run directories a promotion is aimed at: one or two loop directories
PromotionDirs ==
    UNION { [names -> ResultFiles] :
              names \in { { LoopNameOf(l) : l \in 1..n } : n \in 1..2 } }

\* Array.prototype.findIndex by id, 0 for -1
FindIndex(qs, id) ==
    IF \E k \in 1..Len(qs) : qs[k].id = id
    THEN CHOOSE k \in 1..Len(qs) :
            /\ qs[k].id = id
            /\ \A j \in 1..(k - 1) : qs[j].id # id
    ELSE 0

RECURSIVE InsertByParseInt(_, _)
\* a name put into a list sorted by parseInt, after the names that do not
\* compare greater
InsertByParseInt(sorted, name) ==
    IF sorted = << >> THEN << name >>
    ELSE IF ParseInt(name) < ParseInt(sorted[1])
         THEN << name >> \o sorted
         ELSE << sorted[1] >> \o InsertByParseInt(Tail(sorted), name)

RECURSIVE SortByParseInt(_)
\* .sort((a, b) => parseInt(a) - parseInt(b))
SortByParseInt(names) ==
    IF names = << >> THEN << >>
    ELSE InsertByParseInt(SortByParseInt(SubSeq(names, 1, Len(names) - 1)),
                          names[Len(names)])

\* the loop directories in the order readdir lists them
KeepListingOrder(listing) == listing

\* the loops of a run directory: the listed directories, sorted
SortedLoops(listing) == SortByParseInt(listing)

\* the orders in which readdir can list a set of names
Listings(names) ==
    { l \in [1..Cardinality(names) -> names] :
        \A i, j \in 1..Cardinality(names) : l[i] = l[j] => i = j }

\* the file <directory>/<loopName>/results.json can be read and parsed
Readable(dirs, directory, loopName) ==
    /\ directory \in DOMAIN dirs
    /\ loopName \in DOMAIN dirs[directory]
    /\ dirs[directory][loopName].state = "ok"

\* the forEach of updateResultFile with the id test left out
UpdatedResultsAll(results, questionId, maxScore) ==
    [k \in 1..Len(results) |-> [results[k] EXCEPT !.score = maxScore]]

\* the forEach of updateResultFile
UpdatedResults(results, questionId, maxScore) ==
    [k \in 1..Len(results) |->
        IF results[k].id = questionId
        THEN [results[k] EXCEPT !.score = maxScore]
        ELSE results[k]]

\* POST of the promotion route up to the writeFile call of the store: the
\* parameter check, the read of the store and the lookup of the question
PromoteBegin(questionId, answerParam, loopParam, directory) ==
    /\ promo.pc = "idle"
    /\ StoreInFlight = {}
    /\ LET request == [PromoIdle EXCEPT !.questionId = questionId,
                                        !.modelAnswer = answerParam,
                                        !.loop = loopParam,
                                        !.directory = directory]
           questionIndex == FindIndex(questions, questionId)
       IN  promo' =
             IF questionId = 0 \/ answerParam = Undefined
                \/ directory = Undefined
             THEN [request EXCEPT !.pc = "done", !.status = 400]
             ELSE IF questionIndex = 0
             THEN [request EXCEPT !.pc = "done", !.status = 404]
             ELSE [request EXCEPT
                     !.pc = "store_write",
                     !.maxScore = questions[questionIndex].score,
                     !.testCases = [questions EXCEPT
                                      ![questionIndex].answer = answerParam]]
    /\ promoStart' = [questions |-> questions, resultDirs |-> resultDirs]
    /\ UNCHANGED <<notStore, questions, storeReqs, resultDirs, assignedIds,
                   storeOverlap>>

\* the writeFile of the store takes effect; for one loop its file is next
PromoteStoreWrite ==
    /\ promo.pc = "store_write"
    /\ questions' = promo.testCases
    /\ promo' = IF promo.loop = AllLoops
                THEN [promo EXCEPT !.pc = "readdir"]
                ELSE [promo EXCEPT !.pc = "files", !.pos = 1,
                                   !.loops = << promo.loop >>]
    /\ UNCHANGED <<notStore, storeReqs, resultDirs, assignedIds,
                   storeOverlap, promoStart>>

\* loop === 'all': readdir of the run directory and the sort of its loops
PromoteReadDir ==
    /\ promo.pc = "readdir"
    /\ IF promo.directory \notin DOMAIN resultDirs
       THEN promo' = [promo EXCEPT !.pc = "done", !.status = 500]
       ELSE \E listing \in Listings(DOMAIN resultDirs[promo.directory]) :
              promo' = [promo EXCEPT !.pc = "files", !.pos = 1,
                                     !.loops = SortedLoops(listing)]
    /\ UNCHANGED <<notStore, questions, storeReqs, resultDirs, assignedIds,
                   storeOverlap, promoStart>>

\* updateResultFile for the next loop: the file is read, the scores of the
\* question are replaced and, if there was one, the file is written; an
\* unreadable file ends the request
PromoteFile ==
    /\ promo.pc = "files"
    /\ promo.pos <= Len(promo.loops)
    /\ LET loopName == promo.loops[promo.pos]
       IN  IF ~Readable(resultDirs, promo.directory, loopName)
           THEN /\ promo' = [promo EXCEPT !.pc = "done", !.status = 500]
                /\ UNCHANGED resultDirs
           ELSE /\ resultDirs' =
                     [resultDirs EXCEPT
                        ![promo.directory][loopName].results =
                           UpdatedResults(@, promo.questionId, promo.maxScore)]
                /\ promo' = [promo EXCEPT !.pos = promo.pos + 1]
    /\ UNCHANGED <<notStore, questions, storeReqs, assignedIds, storeOverlap,
                   promoStart>>

\* every file is done: the request is answered with success
PromoteReturn ==
    /\ promo.pc = "files"
    /\ promo.pos > Len(promo.loops)
    /\ promo' = [promo EXCEPT !.pc = "done", !.status = 200]
    /\ UNCHANGED <<notStore, questions, storeReqs, resultDirs, assignedIds,
                   storeOverlap, promoStart>>

InitStore ==
    /\ RunIdle
    /\ DbIdle
    /\ AnalysisOff
    /\ LibIdle
    /\ \E n \in {0, MaxCases} :
         /\ questions = StoreOf(n)
         /\ assignedIds = IdsOf(StoreOf(n))
    /\ storeReqs = << >>
    /\ promo = PromoIdle
    /\ \E target \in PromotionDirs :
         resultDirs = [runA |-> [l \in {LoopNameOf(1)} |->
                                    FileOf(ResultsOf(MaxCases))],
                       runB |-> target]
    /\ storeOverlap = FALSE
    /\ promoStart = [questions |-> << >>, resultDirs |-> << >>]

NextStore ==
    \/ \E newScore \in RequestScores : StoreRequest("add", 0, "added", newScore)
    \/ \E id \in {1, MaxCases + 1}, newScore \in RequestScores :
         StoreRequest("edit", id, "edited", newScore)
    \/ \E id \in {1, MaxCases} : StoreRequest("delete", id, Undefined, 0)
    \/ \E r \in 1..MaxStoreRequests : StoreWrite(r)
    \/ \E questionId \in {0, 1, MaxCases + 1},
          loopParam \in {AllLoops} \cup LoopNames,
          directory \in {"runB", "runC"} :
         PromoteBegin(questionId, "answer", loopParam, directory)
    \/ PromoteStoreWrite
    \/ PromoteReadDir
    \/ PromoteFile
    \/ PromoteReturn

SpecStore == InitStore /\ [][NextStore]_vars

\* ================== the analyze-results route and the page's analyzeResults
\* the loop directories of an analysed run directory: 1, 2 and 10
AnalysisLoopNames == { LoopNameOf(l) : l \in 1..3 }

\* a results.json of four entries scored 10, 8, 6 and 4 out of 10
ExampleResults ==
    [i \in 1..4 |->
        ResultEntry([id |-> i, score |-> 10], "answer", 12 - 2 * i, NoError)]

\* what a results.json of an analysed directory can be: absent, unparsable,
\* an empty array, the four entries above, or what a run leaves
AnalysisFiles ==
    ResultFiles \cup { FileOf(<< >>), FileOf(ExampleResults) }

\* the analysed run directories: any loop directories, each with any file
AnalysisDirs ==
    UNION { [names -> AnalysisFiles] : names \in SUBSET AnalysisLoopNames }

\* { ...result, loop } for every entry of a file
Tagged(results, loopName) ==
    [k \in 1..Len(results) |->
        [id |-> results[k].id, modelAnswer |-> results[k].modelAnswer,
         maxScore |-> results[k].maxScore, score |-> results[k].score,
         error |-> results[k].error, loop |-> loopName]]

RECURSIVE SumOf(_, _)
\* results.reduce((sum, r) => sum + r[field], 0)
SumOf(results, field) ==
    IF results = << >> THEN 0
    ELSE SumOf(SubSeq(results, 1, Len(results) - 1), field)
         + results[Len(results)][field]

RECURSIVE Gcd(_, _)
Gcd(a, b) == IF b = 0 THEN a ELSE Gcd(b, a % b)

\* a / b for non-negative integers, as a fraction in lowest terms; 0 / 0,
\* which is NaN, as 0 over 0
Quotient(a, b) ==
    IF b = 0 THEN [num |-> 0, den |-> 0]
    ELSE [num |-> a \div Gcd(a, b), den |-> b \div Gcd(a, b)]

\* the average taken over the questions instead of the entries
AverageScorePerQuestion(totalScore, results) ==
    Quotient(totalScore, Cardinality({ results[k].id : k \in 1..Len(results) }))

\* averageScore = totalScore / results.length
AverageScore(totalScore, results) == Quotient(totalScore, Len(results))

\* POST of the analyze-results route with a directory and a loop:
\* analyzeLoopResult, up to its first await
AnalyzeBegin(directory, loopParam) ==
    /\ analysis.pc = "idle"
    /\ analysis' = [analysis EXCEPT
                      !.directory = directory, !.loop = loopParam,
                      !.pc = IF loopParam = AllLoops
                             THEN "readdir" ELSE "single"]
    /\ UNCHANGED <<notAnalysis, loopResults>>

\* analyzeLoopResult for one loop: the file is read and returned, or the
\* request fails
AnalyzeSingle ==
    /\ analysis.pc = "single"
    /\ analysis' =
         IF Readable(resultDirs, analysis.directory, analysis.loop)
         THEN [analysis EXCEPT
                 !.pc = "answered", !.success = TRUE,
                 !.results = resultDirs[analysis.directory][analysis.loop].results]
         ELSE [analysis EXCEPT !.pc = "answered", !.success = FALSE]
    /\ UNCHANGED <<notAnalysis, loopResults>>

\* analyzeAllLoopsResult: readdir and the sort of the loop directories
AnalyzeReadDir ==
    /\ analysis.pc = "readdir"
    /\ IF analysis.directory \notin DOMAIN resultDirs
       THEN analysis' = [analysis EXCEPT !.pc = "answered", !.success = FALSE]
       ELSE \E listing \in Listings(DOMAIN resultDirs[analysis.directory]) :
              analysis' = [analysis EXCEPT !.pc = "loops", !.pos = 1,
                                           !.loops = SortedLoops(listing)]
    /\ UNCHANGED <<notAnalysis, loopResults>>

\* analyzeAllLoopsResult: the next loop's file is read and its entries are
\* added with their loop, or the loop is skipped with a warning
AnalyzeLoopFile ==
    /\ analysis.pc = "loops"
    /\ analysis.pos <= Len(analysis.loops)
    /\ LET loopName == analysis.loops[analysis.pos]
       IN  analysis' =
             [analysis EXCEPT
                !.pos = analysis.pos + 1,
                !.allResults =
                   IF Readable(resultDirs, analysis.directory, loopName)
                   THEN @ \o Tagged(resultDirs[analysis.directory][loopName].results,
                                    loopName)
                   ELSE @]
    /\ UNCHANGED <<notAnalysis, loopResults>>

\* analyzeAllLoopsResult after the last loop: the answer, or the failure
\* when no entry was found
AnalyzeAllReturn ==
    /\ analysis.pc = "loops"
    /\ analysis.pos > Len(analysis.loops)
    /\ analysis' =
         IF Len(analysis.allResults) = 0
         THEN [analysis EXCEPT !.pc = "answered", !.success = FALSE]
         ELSE [analysis EXCEPT !.pc = "answered", !.success = TRUE,
                               !.results = analysis.allResults,
                               !.isAllLoops = TRUE]
    /\ UNCHANGED <<notAnalysis, loopResults>>

\* the page's analyzeResults once the answer is there: the totals of the
\* entries (a failed request leaves the page as it was)
AnalyzeResults ==
    /\ analysis.pc = "answered"
    /\ analysis' = [analysis EXCEPT !.pc = "done"]
    /\ loopResults' =
         IF analysis.success
         THEN LET results == analysis.results
                  totalScore == SumOf(results, "score")
              IN  [shown |-> TRUE,
                   totalScore |-> totalScore,
                   maxPossibleScore |-> SumOf(results, "maxScore"),
                   averageScore |-> AverageScore(totalScore, results),
                   totalQuestions |->
                      IF analysis.isAllLoops
                      THEN Cardinality({ results[k].id : k \in 1..Len(results) })
                      ELSE Len(results)]
         ELSE loopResults
    /\ UNCHANGED notAnalysis

\* what readdir of a loop directory lists, as runTask leaves it: log.txt
\* and, once a case has been written, results.json; both are files
LoopDirEntries(file) ==
    {[name |-> "log.txt", isDirectory |-> FALSE, file |-> BadFile("missing")]}
    \cup (IF file.state = "missing" THEN {}
          ELSE {[name |-> "results.json", isDirectory |-> FALSE,
                 file |-> file]})

\* the entries of the loop directories that are directories, which
\* analyzeDirectory takes for framework directories holding a results.json
FrameworkDirs(loopDirs, listing) ==
    [k \in 1..Len(listing) |->
       {e \in LoopDirEntries(loopDirs[listing[k]]) : e.isDirectory}]

\* results.filter(item => item.score !== undefined).map(item => item.score)
ScoresOf(results) == [k \in 1..Len(results) |-> results[k].score]

RECURSIVE PushScores(_, _, _)
\* frameworkScores[name].push(...scores) over the loop directories in the
\* order of the listing
PushScores(frameworkDirs, name, k) ==
    IF k > Len(frameworkDirs) THEN << >>
    ELSE (IF \E e \in frameworkDirs[k] : e.name = name /\ e.file.state = "ok"
          THEN ScoresOf((CHOOSE e \in frameworkDirs[k] :
                           e.name = name).file.results)
          ELSE << >>)
         \o PushScores(frameworkDirs, name, k + 1)

\* frameworkScores of analyzeDirectory
FrameworkScores(loopDirs, listing) ==
    LET frameworkDirs == FrameworkDirs(loopDirs, listing)
        names == {name \in {e.name : e \in UNION {frameworkDirs[k] :
                                           k \in 1..Len(frameworkDirs)}} :
                    PushScores(frameworkDirs, name, 1) # << >>}
    IN [name \in names |-> PushScores(frameworkDirs, name, 1)]

\* POST of the analyze-results route with a directory alone:
\* analyzeDirectory, which answers 500 when the directory cannot be listed
AnalyzeDirectory(directory) ==
    /\ analysis.pc = "idle"
    /\ IF directory \notin DOMAIN resultDirs
       THEN analysis' = [analysis EXCEPT !.pc = "aggregated",
                                         !.directory = directory,
                                         !.success = FALSE]
       ELSE \E listing \in Listings(DOMAIN resultDirs[directory]) :
              analysis' =
                [analysis EXCEPT
                   !.pc = "aggregated", !.directory = directory,
                   !.success = TRUE,
                   !.frameworkScores =
                      FrameworkScores(resultDirs[directory], listing)]
    /\ UNCHANGED <<notAnalysis, loopResults>>

InitAnalysis ==
    /\ RunIdle
    /\ DbIdle
    /\ LibIdle
    /\ questions = << >>
    /\ storeReqs = << >>
    /\ promo = PromoIdle
    /\ \E dir \in AnalysisDirs : resultDirs = [run |-> dir]
    /\ assignedIds = << >>
    /\ storeOverlap = FALSE
    /\ promoStart = [questions |-> << >>, resultDirs |-> << >>]
    /\ AnalysisOff

NextAnalysis ==
    \/ \E directory \in {"run", "nowhere"},
          loopParam \in {AllLoops} \cup AnalysisLoopNames :
         AnalyzeBegin(directory, loopParam)
    \/ \E directory \in {"run", "nowhere"} : AnalyzeDirectory(directory)
    \/ AnalyzeSingle
    \/ AnalyzeReadDir
    \/ AnalyzeLoopFile
    \/ AnalyzeAllReturn
    \/ AnalyzeResults

SpecAnalysis == InitAnalysis /\ [][NextAnalysis]_vars

\* ================================================= lib/db/core/chunker.ts
\* A text is a sequence of runs [c, n, p]: n characters of the class c that
\* come from paragraph p of the input (0 for the characters between
\* paragraphs).  The classes:
\*   "x"   characters that are not whitespace and not part of a QA marker
\*   "q"   the two characters of one QA marker ("Q:", "A:", ...)
\*   "sp"  a space, "nl" a line feed, "cr" a carriage return
Word(n) == [c |-> "x", n |-> n, p |-> 0]

Marker == [c |-> "q", n |-> 2, p |-> 0]

Sp == [c |-> "sp", n |-> 1, p |-> 0]

Nl == [c |-> "nl", n |-> 1, p |-> 0]

Cr == [c |-> "cr", n |-> 1, p |-> 0]

\* \s of the regular expressions, and what trim() removes
IsSpace(run) == run.c \in {"sp", "nl", "cr"}

Max(a, b) == IF a >= b THEN a ELSE b

\* String.length
RECURSIVE TextLen(_)
TextLen(text) ==
    IF text = << >> THEN 0 ELSE Head(text).n + TextLen(Tail(text))

\* the concatenation of a list of texts
RECURSIVE Concat(_)
Concat(texts) ==
    IF texts = << >> THEN << >> ELSE Head(texts) \o Concat(Tail(texts))

\* String.trim
Trim(text) ==
    LET inked == {i \in 1..Len(text) : ~IsSpace(text[i])}
    IN IF inked = {} THEN << >>
       ELSE SubSeq(text, CHOOSE i \in inked : \A j \in inked : i <= j,
                         CHOOSE i \in inked : \A j \in inked : i >= j)

\* the characters a..b of the text (String.slice(a - 1, b)); a marker cut in
\* two is a marker no more
RECURSIVE SubText(_, _, _)
SubText(text, a, b) ==
    IF text = << >> \/ b < 1 \/ a > b THEN << >>
    ELSE LET h == Head(text)
             lo == Max(a, 1)
             hi == Min(b, h.n)
             part == IF lo > hi THEN << >>
                     ELSE IF lo = 1 /\ hi = h.n THEN <<h>>
                     ELSE <<[c |-> IF h.c = "q" THEN "x" ELSE h.c,
                             n |-> hi - lo + 1, p |-> h.p]>>
         IN part \o SubText(Tail(text), a - h.n, b - h.n)

\* content.replace(/\r\n/g, '\n')
RECURSIVE NormalizeNewlines(_)
NormalizeNewlines(text) ==
    IF text = << >> THEN << >>
    ELSE IF Len(text) >= 2 /\ text[1].c = "cr" /\ text[2].c = "nl"
         THEN NormalizeNewlines(Tail(text))
         ELSE <<Head(text)>> \o NormalizeNewlines(Tail(text))

\* the number of matches of qaPattern
QaMatches(text) == Len(SelectSeq(text, LAMBDA run : run.c = "q"))

\* The matches of doubleNewlinePattern (/\n\s*\n/g) from the run i on, as
\* pairs <<first run, last run>>: a match starts at the first line feed
\* that has another one after whitespace only, and the greedy \s* carries
\* it to the last line feed of that stretch of whitespace.
RECURSIVE DoubleNewlineMatches(_, _)
DoubleNewlineMatches(text, i) ==
    IF i > Len(text) THEN << >>
    ELSE IF text[i].c # "nl" THEN DoubleNewlineMatches(text, i + 1)
    ELSE LET ends == {j \in (i + 1)..Len(text) :
                        /\ text[j].c = "nl"
                        /\ \A k \in i..j : IsSpace(text[k])}
         IN IF ends = {} THEN DoubleNewlineMatches(text, i + 1)
            ELSE LET j == CHOOSE e \in ends : \A f \in ends : e >= f
                 IN <<<<i, j>>>> \o DoubleNewlineMatches(text, j + 1)

\* paragraphMatches with the blank lines taken for the paragraphs they
\* separate: one more than the matches
ParagraphMatchesPlusOne(text) == Len(DoubleNewlineMatches(text, 1)) + 1

\* paragraphMatches: the number of matches of doubleNewlinePattern
ParagraphMatches(text) == Len(DoubleNewlineMatches(text, 1))

\* String.split(doubleNewlinePattern): the pieces between the matches, the
\* empty ones included
SplitOnBlankLines(text) ==
    LET ms == DoubleNewlineMatches(text, 1)
    IN [k \in 1..(Len(ms) + 1) |->
          SubSeq(text, IF k = 1 THEN 1 ELSE ms[k - 1][2] + 1,
                       IF k > Len(ms) THEN Len(text) ELSE ms[k][1] - 1)]

\* ------- RecursiveCharacterTextSplitter of @langchain/textsplitters, with
\* its default separators "\n\n", "\n", " ", "" and keepSeparator = true
Separators == <<"nlnl", "nl", "sp", "">>

\* the separator occurs in the text at the run i
SeparatorAt(text, i, sep) ==
    CASE sep = "nlnl" -> /\ i < Len(text)
                         /\ text[i].c = "nl"
                         /\ text[i + 1].c = "nl"
      [] sep = "nl" -> text[i].c = "nl"
      [] sep = "sp" -> text[i].c = "sp"
      [] OTHER -> TRUE

\* text.includes(separator)
Includes(text, sep) == \E i \in 1..Len(text) : SeparatorAt(text, i, sep)

\* the elements of a set of numbers in ascending order
SortedSeq(S) ==
    [k \in 1..Cardinality(S) |->
       CHOOSE i \in S : Cardinality({j \in S : j < i}) = k - 1]

\* splitOnSeparator for a separator other than "": the text is cut before
\* every occurrence of the separator and the empty pieces are dropped
SplitOnSeparator(text, sep) ==
    LET cuts == SortedSeq({1} \cup {i \in 2..Len(text) :
                                      SeparatorAt(text, i, sep)})
    IN IF text = << >> THEN << >>
       ELSE [k \in 1..Len(cuts) |->
               SubSeq(text, cuts[k],
                      IF k = Len(cuts) THEN Len(text) ELSE cuts[k + 1] - 1)]

\* joinDocs with the separator "": null (no document) for a blank text
JoinDocs(docs) ==
    LET text == Trim(Concat(docs))
    IN IF text = << >> THEN << >> ELSE <<text>>

\* the while loop of mergeSplits: documents leave the front of currentDoc
\* until what is left is within the overlap and has room for the next one
RECURSIVE ShiftDocs(_, _, _, _)
ShiftDocs(currentDoc, len, chunkSize, chunkOverlap) ==
    LET total == TextLen(Concat(currentDoc))
    IN IF total > chunkOverlap \/ (total + len > chunkSize /\ total > 0)
       THEN ShiftDocs(Tail(currentDoc), len, chunkSize, chunkOverlap)
       ELSE currentDoc

\* mergeSplits: the splits are gathered into documents of at most chunkSize
\* characters, each starting with the overlap of the one before
RECURSIVE MergeSplits(_, _, _, _, _)
MergeSplits(splits, docs, currentDoc, chunkSize, chunkOverlap) ==
    IF splits = << >> THEN docs \o JoinDocs(currentDoc)
    ELSE LET d == Head(splits)
             len == TextLen(d)
             total == TextLen(Concat(currentDoc))
         IN IF total + len > chunkSize /\ currentDoc # << >>
            THEN MergeSplits(Tail(splits), docs \o JoinDocs(currentDoc),
                             Append(ShiftDocs(currentDoc, len, chunkSize,
                                              chunkOverlap), d),
                             chunkSize, chunkOverlap)
            ELSE MergeSplits(Tail(splits), docs, Append(currentDoc, d),
                             chunkSize, chunkOverlap)

\* mergeSplits of the single characters of a text (the separator ""): the
\* documents are the windows of chunkSize characters that start every
\* chunkSize - chunkOverlap characters
MergeChars(text, chunkSize, chunkOverlap) ==
    LET n == TextLen(text)
        stride == chunkSize - chunkOverlap
        count == IF n = 0 THEN 0
                 ELSE IF n <= chunkSize THEN 1
                 ELSE 1 + ((n - chunkSize + stride - 1) \div stride)
    IN Concat([k \in 1..count |->
                 JoinDocs(<<SubText(text, (k - 1) * stride + 1,
                                    Min((k - 1) * stride + chunkSize, n))>>)])

\* _splitText: the text is split on the first separator it contains; the
\* pieces shorter than chunkSize are merged, a longer one is split again on
\* the separators that follow
RECURSIVE SplitTextOn(_, _, _, _)
RECURSIVE SplitLoop(_, _, _, _, _)
SplitTextOn(text, separators, chunkSize, chunkOverlap) ==
    LET found == CHOOSE i \in 1..Len(separators) :
                   /\ separators[i] = "" \/ Includes(text, separators[i])
                   /\ \A j \in 1..(i - 1) :
                        separators[j] # "" /\ ~Includes(text, separators[j])
        separator == separators[found]
        newSeparators == SubSeq(separators, found + 1, Len(separators))
    IN IF separator = "" THEN MergeChars(text, chunkSize, chunkOverlap)
       ELSE SplitLoop(SplitOnSeparator(text, separator), << >>,
                      newSeparators, chunkSize, chunkOverlap)

SplitLoop(splits, goodSplits, newSeparators, chunkSize, chunkOverlap) ==
    LET merged == IF goodSplits = << >> THEN << >>
                  ELSE MergeSplits(goodSplits, << >>, << >>, chunkSize,
                                   chunkOverlap)
    IN IF splits = << >> THEN merged
       ELSE IF TextLen(Head(splits)) < chunkSize
            THEN SplitLoop(Tail(splits), Append(goodSplits, Head(splits)),
                           newSeparators, chunkSize, chunkOverlap)
            ELSE merged
                 \o SplitTextOn(Head(splits), newSeparators, chunkSize,
                                chunkOverlap)
                 \o SplitLoop(Tail(splits), << >>, newSeparators, chunkSize,
                              chunkOverlap)

\* splitter.splitText(text)
SplitText(text, chunkSize, chunkOverlap) ==
    SplitTextOn(text, Separators, chunkSize, chunkOverlap)

\* ----------------------------------------------------- universalChunker
QA_CHUNK_SIZE == 1500

QaRecursiveOverlap == 100

STRUCTURED_CHUNK_SIZE == 2000

STRUCTURED_CHUNK_OVERLAP == 400

DEFAULT_CHUNK_SIZE == 1200

DEFAULT_CHUNK_OVERLAP == 200

MinChunkLength == 10

\* subChunks.map(sc => sc.trim()).filter(sc => sc !== '')
TrimmedNonEmpty(chunks) ==
    SelectSeq([k \in 1..Len(chunks) |-> Trim(chunks[k])],
              LAMBDA chunk : chunk # << >>)

\* the final filter with the limit included: a chunk of exactly ten
\* characters is kept
LongEnoughOrEqual(chunk) == TextLen(chunk) >= MinChunkLength

\* the test of the final filter on a trimmed chunk
LongEnough(chunk) == TextLen(chunk) > MinChunkLength

\* the body of the loop over the pieces of the split (strategies 1 and 2):
\* what one piece adds to finalChunks
PieceChunks(piece, chunkSize, chunkOverlap) ==
    LET trimmedChunk == Trim(piece)
    IN IF trimmedChunk = << >> THEN << >>
       ELSE IF TextLen(trimmedChunk) > chunkSize
            THEN TrimmedNonEmpty(SplitText(trimmedChunk, chunkSize,
                                           chunkOverlap))
            ELSE <<trimmedChunk>>

\* strategies 1 and 2: split on blank lines, split the long pieces again,
\* filter
ParagraphChunks(normalizedContent, chunkSize, chunkOverlap) ==
    LET chunks == SplitOnBlankLines(normalizedContent)
        finalChunks == Concat([k \in 1..Len(chunks) |->
                                 PieceChunks(chunks[k], chunkSize,
                                             chunkOverlap)])
    IN SelectSeq(finalChunks, LAMBDA chunk : LongEnough(Trim(chunk)))

\* strategy 3: the recursive splitter on the whole text, trim, filter
DefaultChunks(normalizedContent) ==
    LET chunks == SplitText(normalizedContent, DEFAULT_CHUNK_SIZE,
                            DEFAULT_CHUNK_OVERLAP)
    IN SelectSeq([k \in 1..Len(chunks) |-> Trim(chunks[k])],
                 LAMBDA chunk : chunk # << >> /\ LongEnough(chunk))

\* the strategy universalChunker logs, and the chunks it returns
UniversalChunkerResult(content) ==
    LET normalizedContent == NormalizeNewlines(content)
        qaMatches == QaMatches(normalizedContent)
        paragraphMatches == ParagraphMatches(normalizedContent)
    IN IF qaMatches > 5 /\ paragraphMatches > 5
       THEN [strategy |-> 1,
             chunks |-> ParagraphChunks(normalizedContent, QA_CHUNK_SIZE,
                                        QaRecursiveOverlap)]
       ELSE IF paragraphMatches >= 3
       THEN [strategy |-> 2,
             chunks |-> ParagraphChunks(normalizedContent,
                                        STRUCTURED_CHUNK_SIZE,
                                        STRUCTURED_CHUNK_OVERLAP)]
       ELSE [strategy |-> 3, chunks |-> DefaultChunks(normalizedContent)]

\* ------------------------------------------------ the texts that are chunked
\* the paragraphs the texts are made of: ten and eleven characters (the two
\* sides of the final filter), a question, two lines, a paragraph over the QA
\* ceiling whose last word is short, a word over every ceiling
ParagraphKinds ==
    {<<Word(MinChunkLength)>>,
     <<Word(MinChunkLength + 1)>>,
     <<Marker, Sp, Word(9)>>,
     <<Word(11), Nl, Word(11)>>,
     <<Word(QA_CHUNK_SIZE - 1), Sp, Word(4)>>,
     <<Word(STRUCTURED_CHUNK_SIZE + 5)>>}

\* what stands between two paragraphs: a blank line, a blank line holding a
\* space, a blank line with CRLF line ends, a single line feed
Gaps == {<<Nl, Nl>>, <<Nl, Sp, Nl>>, <<Cr, Nl, Cr, Nl>>, <<Nl>>}

\* the runs of a paragraph, marked as paragraph p of the text
Paragraph(kind, p) == [k \in 1..Len(kind) |-> [kind[k] EXCEPT !.p = p]]

\* n1 paragraphs of one kind and n2 of another, gap between two paragraphs,
\* and gap again before the first or after the last one
Text(kind1, n1, kind2, n2, gap, edge) ==
    LET body == Concat([i \in 1..(n1 + n2) |->
                          (IF i > 1 THEN gap ELSE << >>)
                          \o Paragraph(IF i <= n1 THEN kind1 ELSE kind2, i)])
    IN (IF edge = "lead" THEN gap ELSE << >>)
       \o body
       \o (IF edge = "trail" THEN gap ELSE << >>)

Texts ==
    {Text(kind1, n[1], kind2, n[2], gap, edge) :
       kind1 \in ParagraphKinds, kind2 \in ParagraphKinds,
       n \in {m \in (0..MaxParas) \X (0..MaxParas) : m[1] + m[2] <= MaxParas},
       gap \in Gaps, edge \in {"none", "lead", "trail"}}

\* universalChunker(content): the function is applied
UniversalChunker ==
    /\ chunker.pc = "called"
    /\ chunker' = [pc |-> "returned", content |-> chunker.content,
                   strategy |-> UniversalChunkerResult(chunker.content).strategy,
                   chunks |-> UniversalChunkerResult(chunker.content).chunks]
    /\ UNCHANGED notChunker

InitChunker ==
    /\ RunIdle
    /\ DbIdle
    /\ StoreIdle
    /\ AnalysisOff
    /\ GoogleOff
    /\ BackendOff
    /\ RerankOff
    /\ PairsOff
    /\ \E content \in Texts :
         chunker = [pc |-> "called", content |-> content, strategy |-> 0,
                    chunks |-> << >>]

NextChunker == UniversalChunker

SpecChunker == InitChunker /\ [][NextChunker]_vars

\* ================================== lib/db/google/index.ts: GoogleFileSearch
\* the ASCII characters of the names; "U+00E9" and "U+00FC" stand for
\* characters outside ASCII
AsciiChars == {"a", "_"}

\* the names the files of the knowledge directory can have
FileNames ==
    {FileName(<<"a">>, ".txt"), FileName(<<"a">>, ".bin"),
     FileName(<<"_">>, ".txt"), FileName(<<"U+00E9">>, ".txt"),
     FileName(<<"U+00FC">>, ".txt")}

\* the extensions of getMimeType's table that occur in the model
SupportedExts == {".txt"}

\* getMimeType(fileName) is not null
HasMimeType(fileName) == fileName.ext \in SupportedExts

\* /[^\x00-\x7F]/.test(fileName)
NonAscii(fileName) ==
    \E i \in 1..Len(fileName.base) : fileName.base[i] \notin AsciiChars

\* the name the seed gives a file whose name has characters outside ASCII:
\* each of them becomes "_"; a name of sixteen "_" (or none) becomes
\* renamed_file_<Date.now()>
NewFileName(fileName) ==
    LET safeName == [i \in 1..Len(fileName.base) |->
                       IF fileName.base[i] \in AsciiChars
                       THEN fileName.base[i] ELSE "_"]
    IN FileName(IF safeName = << >> \/ safeName = [i \in 1..16 |-> "_"]
                THEN <<"renamed_file_", "now">> ELSE safeName,
                fileName.ext)

\* the files of a directory under the names of the set
DirectoryOf(names) == {[name |-> n, content |-> n] : n \in names}

\* the names of the files of the directory
NamesIn(directory) == {f.name : f \in directory}

\* fs.rename(old, new) on a directory: a file that has the new name is
\* replaced
RenameIn(directory, old, new) ==
    {f \in directory : f.name \notin {old, new}}
    \cup {[name |-> new, content |-> f.content] : f \in {g \in directory : g.name = old}}

\* syncProjectMetadata: every reference of project.md to the old name
\* becomes one to the new name (nothing is done when project.md is missing)
SyncProjectMetadata(md, old, new) ==
    IF md.exists
    THEN [md EXCEPT !.refs = {IF n = old THEN new ELSE n : n \in md.refs}]
    ELSE md

\* the orders readdir can list the files in
Orders(names) ==
    {order \in [1..Cardinality(names) -> names] :
       \A i, j \in 1..Cardinality(names) : order[i] = order[j] => i = j}

MaxUploadRetries == 2

RetryDelayMs == 2000

\* the loop test with one retry more (attempts <= maxRetries + 1)
UploadAgainOnceMore(attempts, uploadSuccess) ==
    attempts <= MaxUploadRetries + 1 /\ ~uploadSuccess

\* the test of the upload loop: attempts <= maxRetries && !uploadSuccess
UploadAgain(attempts, uploadSuccess) ==
    attempts <= MaxUploadRetries /\ ~uploadSuccess

\* the loop over the files goes on to the next file
NextFile(s) == [s EXCEPT !.pc = "file", !.pos = s.pos + 1]

\* the file has its final name: a file without a MIME type is skipped, for
\* the others the upload loop begins
UploadLoopBegin(s, fileName) ==
    IF HasMimeType(fileName)
    THEN [s EXCEPT !.pc = "upload", !.fileName = fileName, !.attempts = 0,
                   !.uploadSuccess = FALSE]
    ELSE NextFile(s)

\* the catch block of the upload loop and the loop test after it
UploadCatch(s) ==
    IF UploadAgain(s.attempts + 1, FALSE)
    THEN [s EXCEPT !.pc = "wait", !.attempts = s.attempts + 1]
    ELSE [NextFile(s) EXCEPT !.attempts = s.attempts + 1]

\* uploadSuccess = true and the loop test after it
UploadDone(s) == [NextFile(s) EXCEPT !.uploadSuccess = TRUE]

\* seed(directoryPath) up to readdir: without a store name it throws
SeedBegin ==
    /\ seed.pc = "start"
    /\ seed' = [seed EXCEPT !.pc = IF gStore.storeName = NoStore
                                   THEN "thrown" ELSE "readdir"]
    /\ UNCHANGED <<notSeed, knowledge, gStore, seedLog>>

\* fs.readdir answers
SeedReaddir ==
    /\ seed.pc = "readdir"
    /\ \E order \in Orders(NamesIn(knowledge.files)) :
         seed' = [seed EXCEPT !.pc = "file", !.files = order, !.pos = 1]
    /\ UNCHANGED <<notSeed, knowledge, gStore, seedLog>>

\* the head of the loop over the files, up to the first await of the body
SeedFile ==
    /\ seed.pc = "file"
    /\ seed.pos <= Len(seed.files)
    /\ LET fileName == seed.files[seed.pos]
       IN seed' = IF NonAscii(fileName)
                  THEN [seed EXCEPT !.pc = "rename", !.fileName = fileName]
                  ELSE UploadLoopBegin(seed, fileName)
    /\ UNCHANGED <<notSeed, knowledge, gStore, seedLog>>

\* fs.rename settles: when it succeeds project.md is brought in line and
\* the loop goes on with the new name, when it fails the file is skipped
SeedRename(ok) ==
    /\ seed.pc = "rename"
    /\ LET old == seed.fileName
           new == NewFileName(old)
       IN IF ok /\ old \in NamesIn(knowledge.files)
          THEN /\ knowledge' =
                    [files |-> RenameIn(knowledge.files, old, new),
                     projectMd |-> SyncProjectMetadata(knowledge.projectMd,
                                                       old, new)]
               /\ seed' = UploadLoopBegin(seed, new)
          ELSE /\ seed' = NextFile(seed)
               /\ UNCHANGED knowledge
    /\ UNCHANGED <<notSeed, gStore, seedLog>>

\* the wait before a retry is over
SeedRetryWait ==
    /\ seed.pc = "wait"
    /\ seed' = [seed EXCEPT !.pc = "upload"]
    /\ seedLog' = [seedLog EXCEPT !.waited = RetryDelayMs * seed.attempts]
    /\ UNCHANGED <<notSeed, knowledge, gStore>>

\* the remote stores with the document added to the store of that name
UploadTo(stores, name, doc) ==
    [k \in 1..Len(stores) |->
       IF stores[k].name = name
       THEN [stores[k] EXCEPT !.docs = Append(@, doc)] ELSE stores[k]]

\* uploadToFileSearchStore settles: it throws, or it answers an operation
\* that is done or still indexing (a file that is not there cannot be
\* uploaded, nor can any file to a store that is not there)
SeedUpload(outcome) ==
    /\ seed.pc = "upload"
    /\ outcome # "throws" =>
         /\ seed.fileName \in NamesIn(knowledge.files)
         /\ \E k \in 1..Len(gStore.stores) :
              gStore.stores[k].name = gStore.storeName
    /\ seedLog' = [seedLog EXCEPT
                     !.uploads = Append(@, [pos |-> seed.pos,
                                            attempts |-> seed.attempts,
                                            waited |-> seedLog.waited]),
                     !.waited = 0,
                     !.polls = 0,
                     !.succeeded = IF outcome = "done"
                                   THEN @ \cup {seed.pos} ELSE @]
    /\ IF outcome = "throws"
       THEN /\ seed' = UploadCatch(seed)
            /\ UNCHANGED gStore
       ELSE /\ gStore' = [gStore EXCEPT
                            !.stores = UploadTo(@, gStore.storeName,
                                                CHOOSE f \in knowledge.files :
                                                  f.name = seed.fileName),
                            !.operation = outcome]
            /\ seed' = IF outcome = "done" THEN UploadDone(seed)
                       ELSE [seed EXCEPT !.pc = "poll"]
    /\ UNCHANGED <<notSeed, knowledge>>

\* the remote indexing comes to its end, or the operation gets out of
\* reach (operations.get will throw)
OperationSettles(how) ==
    /\ gStore.operation = "pending"
    /\ gStore' = [gStore EXCEPT !.operation = how]
    /\ UNCHANGED <<notSeed, knowledge, seed, seedLog>>

\* the indexing loop finds the operation not done and waits five seconds
SeedSleep ==
    /\ seed.pc = "poll"
    /\ seed' = [seed EXCEPT !.pc = "get"]
    /\ UNCHANGED <<notSeed, knowledge, gStore, seedLog>>

\* the indexing loop after the wait: operations.get throws or answers the
\* operation as it is now, and the loop tests it again
SeedPoll ==
    /\ seed.pc = "get"
    /\ IF gStore.operation = "lost"
       THEN /\ seed' = UploadCatch(seed)
            /\ UNCHANGED seedLog
       ELSE IF gStore.operation = "done"
       THEN /\ seed' = UploadDone(seed)
            /\ seedLog' = [seedLog EXCEPT !.succeeded = @ \cup {seed.pos}]
       ELSE /\ seedLog' = [seedLog EXCEPT !.polls = Min(@ + 1, MaxPolls)]
            /\ seed' = [seed EXCEPT !.pc = "poll"]
    /\ UNCHANGED <<notSeed, knowledge, gStore>>

\* the loop over the files is over
SeedReturn ==
    /\ seed.pc = "file"
    /\ seed.pos > Len(seed.files)
    /\ seed' = [seed EXCEPT !.pc = "returned"]
    /\ UNCHANGED <<notSeed, knowledge, gStore, seedLog>>

InitSeed ==
    /\ RunIdle
    /\ DbIdle
    /\ StoreIdle
    /\ AnalysisOff
    /\ ChunkerOff
    /\ BackendOff
    /\ RerankOff
    /\ PairsOff
    /\ \E names \in SUBSET FileNames, exists \in BOOLEAN :
         /\ Cardinality(names) <= MaxFiles
         /\ knowledge = [files |-> DirectoryOf(names),
                         projectMd |-> [exists |-> exists,
                                        refs |-> IF exists THEN names ELSE {}]]
    /\ \E storeName \in {NoStore, 1} :
         gStore = GoogleOf(storeName, <<[name |-> 1, displayName |-> "kb",
                                         docs |-> << >>]>>)
    /\ seed = [SeedIdle EXCEPT !.pc = "start"]
    /\ seedLog = NoSeedLog

\* the steps of the seed itself
SeedStep ==
    \/ SeedBegin
    \/ SeedReaddir
    \/ SeedFile
    \/ \E ok \in BOOLEAN : SeedRename(ok)
    \/ SeedRetryWait
    \/ \E outcome \in {"throws", "pending", "done"} : SeedUpload(outcome)
    \/ SeedSleep
    \/ SeedPoll
    \/ SeedReturn

NextSeed ==
    \/ SeedStep
    \/ \E how \in {"done", "lost"} : OperationSettles(how)

SpecSeed == InitSeed /\ [][NextSeed]_vars

\* The seed runs on as long as it has a step to take; nothing obliges the
\* remote indexing to come to its end.
SpecSeedFair == SpecSeed /\ WF_vars(SeedStep)

\* ==================== the three backends: queryDocuments and migrate
\* A chunk of a store is a record [id, distance]: distance is the cosine
\* distance of its embedding to the embedding of the query, in hundredths
\* (0 to 200).  A similarity is in hundredths as well.
SimilarityUnit == 100

GoogleSimilarity == 95

Distances == {0, 30, 200}

\* the contents a store can have: up to MaxStored chunks
StoreContents ==
    UNION {[1..n -> Distances] : n \in 0..MaxStored}

ChunksOf(distances) ==
    [k \in 1..Len(distances) |-> [id |-> k, distance |-> distances[k]]]

\* the similarity as the distance itself (the 1 - is forgotten)
SimilarityOfDistanceRaw(distance) == distance

\* 1 - distance, of the SQL text and of ChromaDB.queryDocuments
SimilarityOfDistance(distance) == SimilarityUnit - distance

\* the orders in which a query can answer the rows: every order that is
\* descending in similarity (equal rows come in any order)
DescendingOrders(rows) ==
    {order \in Orders(1..Len(rows)) :
       \A i \in 1..(Len(rows) - 1) :
         rows[order[i]].similarity >= rows[order[i + 1]].similarity}

\* SELECT id, 1 - (embedding <=> $1::vector) AS similarity FROM
\* knowledge_chunks, before the rows are ordered
SelectedRows(chunks) ==
    [k \in 1..Len(chunks) |->
       [id |-> chunks[k].id,
        similarity |-> SimilarityOfDistance(chunks[k].distance)]]

\* ORDER BY similarity DESC LIMIT $2, the rows taken in the order given
OrderAndLimit(rows, order, topK) ==
    [k \in 1..Min(topK, Len(rows)) |-> rows[order[k]]]

\* the orders in which the collection can answer its documents: nearest
\* first (documents as near as each other come in any order)
NearestFirst(docs) ==
    {order \in Orders(1..Len(docs)) :
       \A i \in 1..(Len(docs) - 1) :
         docs[order[i]].distance <= docs[order[i + 1]].distance}

\* collection.query({queryEmbeddings, nResults}): the nResults nearest
\* documents, nearest first, as ids and distances
CollectionQuery(docs, order, nResults) ==
    LET nearest == [k \in 1..Min(nResults, Len(docs)) |-> docs[order[k]]]
    IN [ids |-> [k \in 1..Len(nearest) |-> nearest[k].id],
        distances |-> [k \in 1..Len(nearest) |-> nearest[k].distance]]

\* the loop of ChromaDB.queryDocuments over results.ids[0]
ChromaDocuments(results) ==
    [i \in 1..Len(results.ids) |->
       [id |-> results.ids[i],
        similarity |-> SimilarityOfDistance(results.distances[i])]]

\* groundingChunks.map(...).slice(0, topK) of GoogleFileSearch
GoogleDocuments(groundingChunks, topK) ==
    Slice0([index \in 1..groundingChunks |->
              [id |-> index - 1, similarity |-> GoogleSimilarity]], topK)

\* findStoreByName: the name of the first store with the display name, null
\* when there is none and when the listing fails
FindStoreByName(stores, displayName, listOk) ==
    LET found == {k \in 1..Len(stores) : stores[k].displayName = displayName}
    IN IF listOk /\ found # {}
       THEN stores[CHOOSE k \in found : \A j \in found : k <= j].name
       ELSE NoStore

\* fileSearchStores.delete({name, force: true})
DeleteStore(stores, name) == SelectSeq(stores, LAMBDA st : st.name # name)

\* the display name of the store the instance was made for
TargetDisplayName == "kb"

\* a call has settled
Settled(op, result, topK, answer) ==
    [backendCall EXCEPT !.op = op, !.result = result, !.topK = topK,
                        !.answer = answer, !.calls = @ + 1]

\* a call can be made to the backend
CanCall(backend) ==
    /\ backendCall.backend = backend
    /\ backendCall.calls < MaxBackendCalls

\* PostgresDB.queryDocuments: an error of the embedding or of the query
\* (there is no table) is caught and answered with []
QueryPostgres(topK, ok) ==
    /\ CanCall("POSTGRES")
    /\ IF ok /\ pgDb.tables
       THEN \E order \in DescendingOrders(SelectedRows(pgDb.chunks)) :
              backendCall' =
                Settled("query", "returned", topK,
                        OrderAndLimit(SelectedRows(pgDb.chunks), order,
                                      topK))
       ELSE backendCall' = Settled("query", "returned", topK, << >>)
    /\ UNCHANGED <<notBackend, pgDb, chromaDb, gStore, migrations>>

\* ChromaDB.queryDocuments: it throws without a collection and rethrows the
\* errors of the embedding and of the query
QueryChroma(topK, ok) ==
    /\ CanCall("CHROMA")
    /\ IF ok /\ chromaDb.collection /\ chromaDb.exists
       THEN \E order \in NearestFirst(chromaDb.docs) :
              backendCall' =
                Settled("query", "returned", topK,
                        ChromaDocuments(CollectionQuery(chromaDb.docs, order,
                                                        topK)))
       ELSE backendCall' = Settled("query", "thrown", topK, << >>)
    /\ UNCHANGED <<notBackend, pgDb, chromaDb, gStore, migrations>>

\* GoogleFileSearch.queryDocuments: without a store name init() looks the
\* store up; the answer is [] without a store, after an error and without
\* grounding chunks
QueryGoogle(topK, listOk, ok, groundingChunks) ==
    /\ CanCall("GOOGLE")
    /\ LET linked == IF gStore.storeName # NoStore THEN gStore.storeName
                     ELSE FindStoreByName(gStore.stores, TargetDisplayName,
                                          listOk)
       IN /\ gStore' = [gStore EXCEPT !.storeName = linked]
          /\ backendCall' =
               Settled("query", "returned", topK,
                       IF linked # NoStore /\ ok
                       THEN GoogleDocuments(groundingChunks, topK)
                       ELSE << >>)
    /\ UNCHANGED <<notBackend, pgDb, chromaDb, migrations>>

\* PostgresDB.migrate: one transaction that drops the two tables and
\* creates them again; an error rolls it back and is thrown again
MigratePostgres(ok) ==
    /\ CanCall("POSTGRES")
    /\ IF ok
       THEN /\ pgDb' = [tables |-> TRUE, chunks |-> << >>]
            /\ backendCall' = Settled("migrate", "returned", 0, << >>)
            /\ migrations' = Append(migrations, pgDb')
       ELSE /\ backendCall' = Settled("migrate", "thrown", 0, << >>)
            /\ migrations' = << >>
            /\ UNCHANGED pgDb
    /\ UNCHANGED <<notBackend, chromaDb, gStore>>

\* ChromaDB.migrate: deleteCollection (its error is passed over when the
\* collection does not exist), then getOrCreateCollection
MigrateChroma(deleteOk, createOk) ==
    /\ CanCall("CHROMA")
    /\ IF ~deleteOk
       THEN /\ backendCall' = Settled("migrate", "thrown", 0, << >>)
            /\ migrations' = << >>
            /\ UNCHANGED chromaDb
       ELSE IF ~createOk
       THEN /\ chromaDb' = [chromaDb EXCEPT !.exists = FALSE, !.docs = << >>]
            /\ backendCall' = Settled("migrate", "thrown", 0, << >>)
            /\ migrations' = << >>
       ELSE /\ chromaDb' = [collection |-> TRUE, exists |-> TRUE,
                            docs |-> << >>]
            /\ backendCall' = Settled("migrate", "returned", 0, << >>)
            /\ migrations' = Append(migrations, [exists |-> TRUE,
                                                 docs |-> << >>])
    /\ UNCHANGED <<notBackend, pgDb, gStore>>

\* the stores that have the target display name, without their names
TargetStores(stores) ==
    LET named == SelectSeq(stores,
                           LAMBDA st : st.displayName = TargetDisplayName)
    IN [k \in 1..Len(named) |-> named[k].docs]

\* GoogleFileSearch.migrate: the store found under the display name is
\* deleted (an error of the deletion is thrown again), then a new store is
\* created and its name kept
MigrateGoogle(listOk, deleteOk, createOk) ==
    /\ CanCall("GOOGLE")
    /\ LET existingName == FindStoreByName(gStore.stores, TargetDisplayName,
                                           listOk)
           kept == IF existingName # NoStore
                   THEN DeleteStore(gStore.stores, existingName)
                   ELSE gStore.stores
           newStore == [name |-> gStore.created + 1,
                        displayName |-> TargetDisplayName, docs |-> << >>]
       IN IF existingName # NoStore /\ ~deleteOk
          THEN /\ backendCall' = Settled("migrate", "thrown", 0, << >>)
               /\ migrations' = << >>
               /\ UNCHANGED gStore
          ELSE IF ~createOk
          THEN /\ gStore' = [gStore EXCEPT !.stores = kept]
               /\ backendCall' = Settled("migrate", "thrown", 0, << >>)
               /\ migrations' = << >>
          ELSE /\ gStore' = [gStore EXCEPT !.stores = Append(kept, newStore),
                                           !.created = @ + 1,
                                           !.storeName = newStore.name]
               /\ backendCall' = Settled("migrate", "returned", 0, << >>)
               /\ migrations' = Append(migrations,
                                       TargetStores(Append(kept, newStore)))
    /\ UNCHANGED <<notBackend, pgDb, chromaDb>>

\* the remote stores there can be before the calls
RemoteStores ==
    {<< >>,
     <<[name |-> 1, displayName |-> TargetDisplayName, docs |-> << >>]>>,
     <<[name |-> 1, displayName |-> TargetDisplayName,
        docs |-> <<[name |-> FileName(<<"a">>, ".txt"),
                    content |-> FileName(<<"a">>, ".txt")]>>]>>,
     <<[name |-> 1, displayName |-> "other", docs |-> << >>],
       [name |-> 2, displayName |-> TargetDisplayName,
        docs |-> <<[name |-> FileName(<<"a">>, ".txt"),
                    content |-> FileName(<<"a">>, ".txt")]>>]>>}

InitBackend ==
    /\ RunIdle
    /\ DbIdle
    /\ StoreIdle
    /\ AnalysisOff
    /\ ChunkerOff
    /\ RerankOff
    /\ PairsOff
    /\ knowledge = [files |-> {},
                    projectMd |-> [exists |-> FALSE, refs |-> {}]]
    /\ seed = SeedIdle
    /\ seedLog = NoSeedLog
    /\ migrations = << >>
    /\ \E backend \in {"POSTGRES", "CHROMA", "GOOGLE"} :
         /\ backendCall = [BackendIdle EXCEPT !.backend = backend]
         /\ IF backend = "POSTGRES"
            THEN \/ pgDb = NoTables
                 \/ \E distances \in StoreContents :
                      pgDb = [tables |-> TRUE, chunks |-> ChunksOf(distances)]
            ELSE pgDb = NoTables
         /\ IF backend = "CHROMA"
            THEN \/ chromaDb = NoCollection
                 \/ \E distances \in StoreContents :
                      chromaDb = [collection |-> TRUE, exists |-> TRUE,
                                  docs |-> ChunksOf(distances)]
            ELSE chromaDb = NoCollection
         /\ IF backend = "GOOGLE"
            THEN \E stores \in RemoteStores, linked \in BOOLEAN :
                   gStore = GoogleOf(IF linked
                                     THEN FindStoreByName(stores,
                                            TargetDisplayName, TRUE)
                                     ELSE NoStore, stores)
            ELSE gStore = GoogleOf(NoStore, << >>)

NextBackend ==
    \/ \E topK \in 1..MaxTopK, ok \in BOOLEAN : QueryPostgres(topK, ok)
    \/ \E topK \in 1..MaxTopK, ok \in BOOLEAN : QueryChroma(topK, ok)
    \/ \E topK \in 1..MaxTopK, listOk \in BOOLEAN, ok \in BOOLEAN,
          groundingChunks \in 0..(MaxStored + 1) :
         QueryGoogle(topK, listOk, ok, groundingChunks)
    \/ \E ok \in BOOLEAN : MigratePostgres(ok)
    \/ \E deleteOk \in BOOLEAN, createOk \in BOOLEAN :
         MigrateChroma(deleteOk, createOk)
    \/ \E listOk \in BOOLEAN, deleteOk \in BOOLEAN, createOk \in BOOLEAN :
         MigrateGoogle(listOk, deleteOk, createOk)

SpecBackend == InitBackend /\ [][NextBackend]_vars

\* ============================== rerankDocuments and the context assembly
\* what the rerank service can answer for n documents: a status that is ok
\* or not, and a results list of its own making (the client sends the
\* documents with their indexes 0..n-1 and reads the answer as JSON)
RECURSIVE ResultLists(_, _)
ResultLists(n, len) ==
    IF len = 0 THEN {<< >>}
    ELSE LET shorter == ResultLists(n, len - 1)
         IN shorter \cup
            {Append(r, [index |-> i, score |-> sc]) :
               r \in {x \in shorter : Len(x) = len - 1},
               i \in 0..n, sc \in RerankScores}

ServiceResponses(n) ==
    {[ok |-> FALSE, results |-> << >>]} \cup
    {[ok |-> TRUE, results |-> r] : r \in ResultLists(n, MaxResults)}

\* rerankDocuments: [] without a request for an empty list; an answer that
\* is not ok is thrown; otherwise data.results is returned as it came
RerankDocuments ==
    /\ rerankCall.pc = "called"
    /\ rerankCall' =
         IF rerankCall.documents = 0
         THEN [rerankCall EXCEPT !.pc = "returned",
                                 !.rerankedResults = << >>]
         ELSE IF ~rerankCall.response.ok
         THEN [rerankCall EXCEPT !.pc = "thrown"]
         ELSE [rerankCall EXCEPT !.pc = "returned",
                                 !.rerankedResults = rerankCall.response.results]
    /\ UNCHANGED notRerank

\* runTask after the rerank: finalChunks, the threshold, the fallback
AssembleContext ==
    /\ rerankCall.pc = "returned"
    /\ rerankCall' =
         [rerankCall EXCEPT !.pc = "assembled",
            !.context = FinalContextChunks(rerankCall.documents,
                                           rerankCall.rerankedResults)]
    /\ UNCHANGED notRerank

\* runTask's catch around the retrieval: the raw question
RerankCatch ==
    /\ rerankCall.pc = "thrown"
    /\ rerankCall' = [rerankCall EXCEPT !.pc = "caught",
                                        !.context = RawQuestion]
    /\ UNCHANGED notRerank

InitRerank ==
    /\ RunIdle
    /\ DbIdle
    /\ StoreIdle
    /\ AnalysisOff
    /\ ChunkerOff
    /\ GoogleOff
    /\ BackendOff
    /\ PairsOff
    /\ \E n \in 0..MaxDocs :
         \E response \in ServiceResponses(n) :
           rerankCall = [RerankIdle EXCEPT !.pc = "called", !.documents = n,
                                           !.response = response]

NextRerank ==
    \/ RerankDocuments
    \/ AssembleContext
    \/ RerankCatch

SpecRerank == InitRerank /\ [][NextRerank]_vars

\* ===================== the vectorize-knowledge route, hosted backend
\* Requests for the same store name, each a record [pc, force, existingName,
\* status] with two history fields: existed (whether the store was there
\* when the request checked) and deleted (the stores it has deleted).  The
\* requests share the pooled GoogleFileSearch instance and interleave at
\* their awaits.
VectorizeRequest(force) ==
    [pc |-> "check", force |-> force, existingName |-> NoStore, status |-> 0,
     existed |-> FALSE, deleted |-> {}]

\* the answer of a request
Respond(r, status) ==
    [vectorize EXCEPT ![r].pc = "done", ![r].status = status]

\* the document a seed uploads
KnowledgeDoc ==
    [name |-> FileName(<<"a">>, ".txt"), content |-> FileName(<<"a">>, ".txt")]

\* a store with the name is there
StoreThere(stores, name) == \E k \in 1..Len(stores) : stores[k].name = name

\* POST: checkStoreExists, then 409 when the store exists and force is off
VectorizeCheck(r, listOk) ==
    /\ vectorize[r].pc = "check"
    /\ LET exists == FindStoreByName(gStore.stores, TargetDisplayName,
                                     listOk) # NoStore
           there == FindStoreByName(gStore.stores, TargetDisplayName,
                                    TRUE) # NoStore
       IN vectorize' =
            IF exists /\ ~vectorize[r].force
            THEN [Respond(r, 409) EXCEPT ![r].existed = there]
            ELSE [vectorize EXCEPT ![r].pc = "find", ![r].existed = there]
    /\ UNCHANGED <<notVectorize, gStore>>

\* migrate: findStoreByName
VectorizeFind(r, listOk) ==
    /\ vectorize[r].pc = "find"
    /\ LET existingName == FindStoreByName(gStore.stores, TargetDisplayName,
                                           listOk)
       IN vectorize' =
            [vectorize EXCEPT ![r].existingName = existingName,
                              ![r].pc = IF existingName # NoStore
                                        THEN "delete" ELSE "create"]
    /\ UNCHANGED <<notVectorize, gStore>>

\* migrate: fileSearchStores.delete of the store found; its error (the
\* store is gone, or the service fails) is thrown again and POST answers 500
VectorizeDelete(r, ok) ==
    /\ vectorize[r].pc = "delete"
    /\ IF ok /\ StoreThere(gStore.stores, vectorize[r].existingName)
       THEN /\ gStore' = [gStore EXCEPT
                            !.stores = DeleteStore(@, vectorize[r].existingName)]
            /\ vectorize' =
                 [vectorize EXCEPT ![r].pc = "create",
                                   ![r].deleted =
                                      @ \cup {vectorize[r].existingName}]
       ELSE /\ vectorize' = Respond(r, 500)
            /\ UNCHANGED gStore
    /\ UNCHANGED notVectorize

\* migrate: fileSearchStores.create and this.storeName
VectorizeCreate(r, ok) ==
    /\ vectorize[r].pc = "create"
    /\ IF ok
       THEN /\ gStore' =
                 [gStore EXCEPT
                    !.stores = Append(@, [name |-> gStore.created + 1,
                                          displayName |-> TargetDisplayName,
                                          docs |-> << >>]),
                    !.created = @ + 1,
                    !.storeName = gStore.created + 1]
            /\ vectorize' = [vectorize EXCEPT ![r].pc = "seed"]
       ELSE /\ vectorize' = Respond(r, 500)
            /\ UNCHANGED gStore
    /\ UNCHANGED notVectorize

\* seed, taken as one step: it throws without a store name; an upload to a
\* store that is gone fails, is caught in seed and leaves the answer 200
VectorizeSeed(r) ==
    /\ vectorize[r].pc = "seed"
    /\ IF gStore.storeName = NoStore
       THEN /\ vectorize' = Respond(r, 500)
            /\ UNCHANGED gStore
       ELSE /\ vectorize' = Respond(r, 200)
            /\ gStore' =
                 IF StoreThere(gStore.stores, gStore.storeName)
                 THEN [gStore EXCEPT
                         !.stores = UploadTo(@, gStore.storeName, KnowledgeDoc)]
                 ELSE gStore
    /\ UNCHANGED notVectorize

InitVectorize ==
    /\ RunIdle
    /\ DbIdle
    /\ StoreIdle
    /\ AnalysisOff
    /\ ChunkerOff
    /\ BackendOff
    /\ RerankOff
    /\ seedings = NoSeedings
    /\ twoRuns = NoRuns
    /\ knowledge = [files |-> {},
                    projectMd |-> [exists |-> FALSE, refs |-> {}]]
    /\ seed = SeedIdle
    /\ seedLog = NoSeedLog
    /\ \E stores \in RemoteStores :
         gStore = GoogleOf(FindStoreByName(stores, TargetDisplayName, TRUE),
                           stores)
    /\ vectorize \in [1..MaxVectorize -> {VectorizeRequest(force) :
                                           force \in BOOLEAN}]

NextVectorize ==
    \E r \in 1..MaxVectorize :
      \/ \E listOk \in BOOLEAN : VectorizeCheck(r, listOk)
      \/ \E listOk \in BOOLEAN : VectorizeFind(r, listOk)
      \/ \E ok \in BOOLEAN : VectorizeDelete(r, ok)
      \/ \E ok \in BOOLEAN : VectorizeCreate(r, ok)
      \/ VectorizeSeed(r)

SpecVectorize == InitVectorize /\ [][NextVectorize]_vars

\* ======================== seed() called again on the self-hosted backends
\* The directory is given by the chunks universalChunker makes of its
\* files, in the order they are stored; a row of a store is a record
\* [id, text], the id made of the number of the call and of the chunk.
ChunkTexts == {"c1", "c2"}

\* the directories that are seeded
Directories == UNION {[1..n -> ChunkTexts] : n \in 0..MaxDirChunks}

\* the rows a seed call stores for the first n chunks of the directory
RowsOf(dir, call, n) == [k \in 1..n |-> [id |-> <<call, k>>, text |-> dir[k]]]

\* how many rows of a store hold each text
TextCounts(rows) ==
    [t \in {rows[k].text : k \in 1..Len(rows)} |->
       Cardinality({k \in 1..Len(rows) : rows[k].text = t})]

\* seed() can be called once more
CanSeed(backend) ==
    /\ seedings.backend = backend
    /\ seedings.calls < MaxSeedCalls

\* the seed call has returned, or has thrown
Seeded(rows, returned) ==
    [seedings EXCEPT !.calls = @ + 1,
                     !.left = IF returned THEN Append(@, TextCounts(rows))
                              ELSE << >>]

\* PostgresDB.seed: TRUNCATE knowledge_files CASCADE, then the files and
\* the chunks are inserted one by one; an error (stored is less than the
\* number of chunks) is thrown again with the rows stored so far left in
\* the tables
SeedPostgres(stored) ==
    /\ CanSeed("POSTGRES")
    /\ pgDb.tables
    /\ LET rows == RowsOf(seedings.dir, seedings.calls + 1, stored)
       IN /\ pgDb' = [pgDb EXCEPT !.chunks = rows]
          /\ seedings' = Seeded(rows, stored = Len(seedings.dir))
    /\ UNCHANGED <<notSeedings, chromaDb>>

\* ChromaDB.seed: the chunks of every file are added to the collection
\* under new ids
SeedChroma(stored) ==
    /\ CanSeed("CHROMA")
    /\ chromaDb.collection /\ chromaDb.exists
    /\ LET rows == chromaDb.docs
                   \o RowsOf(seedings.dir, seedings.calls + 1, stored)
       IN /\ chromaDb' = [chromaDb EXCEPT !.docs = rows]
          /\ seedings' = Seeded(rows, stored = Len(seedings.dir))
    /\ UNCHANGED <<notSeedings, pgDb>>

InitReseed ==
    /\ RunIdle
    /\ DbIdle
    /\ StoreIdle
    /\ AnalysisOff
    /\ ChunkerOff
    /\ GoogleOff
    /\ RerankOff
    /\ backendCall = BackendIdle
    /\ migrations = << >>
    /\ vectorize = NoRequests
    /\ twoRuns = NoRuns
    /\ \E backend \in {"POSTGRES", "CHROMA"}, dir \in Directories,
          old \in Directories :
         /\ seedings = [NoSeedings EXCEPT !.backend = backend, !.dir = dir]
         /\ pgDb = IF backend = "POSTGRES"
                   THEN [tables |-> TRUE, chunks |-> RowsOf(old, 0, Len(old))]
                   ELSE NoTables
         /\ chromaDb = IF backend = "CHROMA"
                       THEN [collection |-> TRUE, exists |-> TRUE,
                             docs |-> RowsOf(old, 0, Len(old))]
                       ELSE NoCollection

NextReseed ==
    \/ \E stored \in 0..Len(seedings.dir) : SeedPostgres(stored)
    \/ \E stored \in 0..Len(seedings.dir) : SeedChroma(stored)

SpecReseed == InitReseed /\ [][NextReseed]_vars

\* ================================== runs of the run-task route side by side
\* The clock is in milliseconds, as Date is.  Every run of this part has a
\* loopCount of 1, so its files are log.txt and results.json of loop
\* directory 1 under its run directory.

\* getTimestamp: the date and the time of day down to the seconds, every
\* field padded to two digits: one name for each second
getTimestamp(now) == now \div MsPerSecond

\* a run directory right after mkdir: no loop directory in it
NewRunDir == [logFile |-> FALSE, log |-> << >>, results |-> NoRun]

\* the clock moves on, by a millisecond or by a second
ClockTick(ms) ==
    /\ twoRuns.ticks < MaxTicks
    /\ twoRuns' = [twoRuns EXCEPT !.clock = @ + ms, !.ticks = @ + 1]
    /\ UNCHANGED notTwoRuns

\* start of the stream of POST: the run directory is named after the
\* time and made, which leaves a directory that is there as it is
RunPost ==
    /\ Len(twoRuns.runs) < MaxRuns
    /\ LET runTimestamp == getTimestamp(twoRuns.clock)
           dirs == twoRuns.dirs
       IN  twoRuns' =
             [twoRuns EXCEPT
                !.runs = Append(@, [dir |-> runTimestamp, pc |-> "created"]),
                !.dirs = IF runTimestamp \in DOMAIN dirs THEN dirs
                         ELSE [d \in DOMAIN dirs \cup {runTimestamp} |->
                                 IF d = runTimestamp THEN NewRunDir
                                 ELSE dirs[d]]]
    /\ UNCHANGED notTwoRuns

\* runTask at the top of its loop: the loop directory is made and
\* ensureLogFileExists makes log.txt unless it is there
RunLoopBegin(r) ==
    /\ r \in 1..Len(twoRuns.runs)
    /\ twoRuns.runs[r].pc = "created"
    /\ twoRuns' = [twoRuns EXCEPT
                     !.runs[r].pc = "loop",
                     !.dirs[twoRuns.runs[r].dir].logFile = TRUE]
    /\ UNCHANGED notTwoRuns

\* appendToLogFile with the question and the answer of the run
RunAppendLog(r) ==
    /\ r \in 1..Len(twoRuns.runs)
    /\ twoRuns.runs[r].pc = "loop"
    /\ twoRuns' = [twoRuns EXCEPT
                     !.runs[r].pc = "answered",
                     !.dirs[twoRuns.runs[r].dir].log = Append(@, r)]
    /\ UNCHANGED notTwoRuns

\* writeFile of results.json at the end of the loop
RunWriteResults(r) ==
    /\ r \in 1..Len(twoRuns.runs)
    /\ twoRuns.runs[r].pc = "answered"
    /\ twoRuns' = [twoRuns EXCEPT
                     !.runs[r].pc = "done",
                     !.dirs[twoRuns.runs[r].dir].results = r]
    /\ UNCHANGED notTwoRuns

InitTwoRuns ==
    /\ RunIdle
    /\ DbIdle
    /\ StoreIdle
    /\ AnalysisOff
    /\ ChunkerOff
    /\ GoogleOff
    /\ BackendOff
    /\ RerankOff
    /\ vectorize = NoRequests
    /\ seedings = NoSeedings
    /\ twoRuns = NoRuns

NextTwoRuns ==
    \/ \E ms \in {1, MsPerSecond} : ClockTick(ms)
    \/ RunPost
    \/ \E r \in 1..MaxRuns : RunLoopBegin(r)
    \/ \E r \in 1..MaxRuns : RunAppendLog(r)
    \/ \E r \in 1..MaxRuns : RunWriteResults(r)

SpecTwoRuns == InitTwoRuns /\ [][NextTwoRuns]_vars

\* ================================================================ claims
\* the events of the progress kinds, in order
ProgressEvents(evs) == SelectSeq(evs, LAMBDA e : e.type \in ProgressTypes)

EntryIds(f) == [k \in 1..Len(f) |-> f[k].id]

\* the ids of the first n test cases, in list order
CaseIds(n) == [k \in 1..n |-> testCases[k].id]

\* no error other than the cancellation has left runTask
NoRunError ==
    \A k \in 1..Len(events) :
        events[k].type = "error" => events[k].msg = "cancelled by user"

FailureMessages == {"unexpected format", "critical error"}

\* the positions of a test case that is in flight
CasePcs == {"case_begin", "get_db", "query", "rerank", "pre_work",
            "work_call", "work_returned", "work_logged", "score_call",
            "score_returned", "write"}

\* C1: safeModelCall with the default budget calls the model at most 3
\* times, returns at the first call that yields string content with that
\* content as a success, returns a failure with an error message when all 3
\* calls fail, and never raises.
C1_SafeModelCallBounded ==
    /\ callsMade <= DefaultRetries + 1
    /\ pc \in {"work_call", "score_call"} =>
         callsMade = attempt /\ attempt <= DefaultRetries
    /\ pc = "work_returned" =>
         /\ callsMade = attempt + 1
         /\ workResult.success =>
              workResult.content = "answer" /\ workResult.error = NoError
         /\ ~workResult.success =>
              /\ callsMade = DefaultRetries + 1
              /\ workResult.error \in FailureMessages
    /\ pc = "score_returned" =>
         /\ callsMade = attempt + 1
         /\ scoreResult.success =>
              scoreResult.content \in ScoreContents
              /\ scoreResult.error = NoError
         /\ ~scoreResult.success =>
              /\ callsMade = DefaultRetries + 1
              /\ scoreResult.error \in FailureMessages
    /\ NoRunError

\* C1 witness: a work call that failed twice and succeeded at the third call
C1_Witness ==
    pc = "work_returned" /\ workResult.success /\ callsMade = 3

\* C2: a test case whose work call failed on all attempts gets no score
\* call, is persisted with the placeholder answer, the error and score 0,
\* and the run goes on to the next case instead of aborting.
C2_WorkFailureRecorded ==
    /\ pc \in {"score_call", "score_returned"} => workResult.success
    /\ (pc \in {"write", "sleep"} /\ ~workResult.success) =>
         LET e == Last(qaResults)
         IN  /\ e.id = testCases[idx].id
             /\ e.modelAnswer = Placeholder
             /\ e.score = 0
             /\ e.error = workResult.error
             /\ e.error \in FailureMessages
    /\ (pc = "sleep" /\ ~workResult.success) => files[loop] = qaResults
    /\ NoRunError
    /\ (closed /\ Len(events) > 0 /\ Last(events).type = "done") =>
         \A l \in 1..loopCount : Len(files[l]) = Len(testCases)

\* C2 witness: the second case of a loop is under way after the first one
\* was persisted with a failed work call
C2_Witness ==
    /\ pc = "get_db"
    /\ idx = 2
    /\ Len(files[loop]) = 1
    /\ files[loop][1].modelAnswer = Placeholder
    /\ files[loop][1].error \in FailureMessages

\* the score call of the case returned a failure
ScoreCallFailed == scoreResult.error \in FailureMessages

\* C3: a test case whose score call failed on all attempts is persisted
\* with its error field set.
C3_ScoreFailureRecorded ==
    (pc = "sleep" /\ workResult.success /\ ScoreCallFailed) =>
        Last(files[loop]).error # NoError

\* C4: after queryDocuments has raised, the work model is called with the
\* question alone as the prompt, the case's entry is persisted like any
\* other, and no error leaves runTask.
C4_RetrievalFailureDegrades ==
    /\ (pc \in {"pre_work", "work_call"} /\ retrieval = "query failed") =>
         augmentedPrompt = RawQuestion
    /\ pc = "sleep" => Len(files[loop]) = idx
    /\ NoRunError

\* C4 witness: the work model has been called for a case whose
\* queryDocuments raised
C4_Witness ==
    pc = "work_call" /\ retrieval = "query failed" /\ callsMade >= 1

\* C5: after a rerank failure on a non-empty retrieval the prompt's context
\* is the first 3 raw chunks.
C5_RerankFailureUsesRawTop3 ==
    (pc = "pre_work" /\ retrieval = "rerank failed" /\ relevantChunks > 0) =>
        augmentedPrompt = Slice0(RawChunks(relevantChunks), FallbackTopN)

\* C6: when the client aborts between two test cases, every results.json
\* stays as it was at the abort: the k entries persisted so far and nothing
\* more.
C6_CancelBetweenCases ==
    (aborted /\ abortSnapshot.at = "between cases") =>
        files = abortSnapshot.files

\* C6 witness: a run closed after an abort that came between the first and
\* the second case of its first loop
C6_Witness ==
    /\ closed
    /\ aborted
    /\ abortSnapshot.at = "between cases"
    /\ Len(testCases) >= 2
    /\ loopCount >= 1
    /\ loop = 1
    /\ Len(files[1]) = 1
    /\ abortSnapshot.files = files

\* C7: a cancelled run sends no event of kind error.
C7_CancelIsNotAnErrorEvent ==
    (closed /\ cancelObserved) =>
        \A k \in 1..Len(events) : events[k].type # "error"

\* C8: a closed stream holds exactly one terminal event, and it is the last
\* event.
C8_OneTerminalEvent ==
    closed =>
        /\ Len(events) > 0
        /\ Last(events).type \in TerminalTypes
        /\ Cardinality({ k \in 1..Len(events) :
                           events[k].type \in TerminalTypes }) = 1

\* C9: no log, update, state_update or token_usage event is enqueued after
\* a cancellation check has seen the flag set; nor after the abort itself,
\* once runTask is running.
C9_NoProgressAfterCancel ==
    /\ cancelObserved =>
         ProgressEvents(events) = ProgressEvents(observedEvents)
    /\ (aborted /\ abortSnapshot.at # "before runTask") =>
         ProgressEvents(events) = ProgressEvents(abortSnapshot.events)

\* C9 witness: a run closed on a cancellation seen after the first case had
\* begun
C9_Witness ==
    /\ closed
    /\ cancelObserved
    /\ Len(observedEvents) > 3
    /\ Last(events).type = "error"

BeforeWorkPcs == {"get_db", "query", "rerank", "pre_work", "work_call"}

\* C11: loops run in the order 1..loopCount and the cases of a loop in list
\* order, one at a time; a case's entry is written to results.json only
\* after its retrieval, rerank, work call and (when due) score call are over.
C11_SequentialOrder ==
    /\ loop \in 0..(loopCount + 1)
    /\ pc \in (CasePcs \cup {"sleep"}) =>
         loop \in 1..loopCount /\ idx \in 1..Len(testCases)
    /\ pc \in (CasePcs \ {"write"}) => EntryIds(qaResults) = CaseIds(idx - 1)
    /\ pc \in BeforeWorkPcs => workResult = NoResult /\ scoreResult = NoResult
    /\ pc \in {"pre_work", "work_call"} => retrieval # "none"
    /\ pc = "score_call" => workResult.success /\ scoreResult = NoResult
    /\ pc \in {"write", "sleep"} =>
         /\ EntryIds(qaResults) = CaseIds(idx)
         /\ retrieval = "none"
         /\ workResult # NoResult
         /\ workResult.success => scoreResult # NoResult
         /\ attempt = 0 /\ callsMade = 0
         /\ Last(qaResults) = ResultEntry(testCases[idx], modelAnswer, score,
                                         workResult.error)
    /\ pc = "sleep" => files[loop] = qaResults
    /\ pc = "write" => files[loop] = SubSeq(qaResults, 1, idx - 1)

\* C11 witness: the first case of the second loop has been written after
\* its work call and its score call both returned a result
C11_Witness ==
    /\ pc = "sleep"
    /\ loop = 2
    /\ idx = 1
    /\ workResult.success
    /\ scoreResult.success
    /\ Len(files[1]) = Len(testCases)

\* C12: when getDbInstance fails for a case (store not configured,
\* unsupported backend, init() raising), the run stops: the work model is
\* not called for that case.
C12_DbInitFailureAbortsRun ==
    ~(retrieval = "db failed" /\ pc = "work_call")

\* the getDbInstance calls that have returned an instance
DbReturned == { c \in 1..Len(dbCalls) : dbCalls[c].pc = "returned" }

\* C13: when getDbInstance calls are made one after the other, two calls
\* for the same (backend type, embedding model) return the same instance,
\* two calls for one backend type and different embedding models return
\* different instances, and the pool holds exactly the instances whose
\* init() has completed, under the keys of the calls that returned.
C13_SequentialCallsShareInstance ==
    /\ ~dbOverlap =>
         \A a, b \in DbReturned :
            /\ (dbCalls[a].dbType = dbCalls[b].dbType
                /\ dbCalls[a].effectiveEmbeddingModel =
                     dbCalls[b].effectiveEmbeddingModel)
               => dbCalls[a].result = dbCalls[b].result
            /\ (dbCalls[a].dbType = dbCalls[b].dbType
                /\ dbCalls[a].effectiveEmbeddingModel #
                     dbCalls[b].effectiveEmbeddingModel)
               => dbCalls[a].result # dbCalls[b].result
    /\ \A k \in DOMAIN dbInstancePool :
         /\ dbInstancePool[k] \in 1..Len(dbInstances)
         /\ dbInstances[dbInstancePool[k]].init = "done"
         /\ dbInstances[dbInstancePool[k]].cacheKey = k
         /\ \E c \in DbReturned : dbCalls[c].cacheKey = k
    /\ \A c \in 1..Len(dbCalls) :
         dbCalls[c].pc = "thrown" =>
            \A k \in DOMAIN dbInstancePool :
               dbInstancePool[k] # dbCalls[c].newInstance

\* C13 witness: two calls made one after the other, the second one with the
\* embedding model left to the environment, have returned the instance
\* that the first one constructed and initialised
C13_Witness ==
    /\ ~dbOverlap
    /\ Len(dbCalls) = 2
    /\ dbCalls[1].pc = "returned" /\ dbCalls[2].pc = "returned"
    /\ dbCalls[1].embeddingModel # dbCalls[2].embeddingModel
    /\ dbCalls[1].cacheKey = dbCalls[2].cacheKey
    /\ dbCalls[1].newInstance = 1
    /\ dbCalls[2].result = 1

\* C14: whatever the interleaving of the calls, one instance at most is
\* constructed and initialised for a key and every caller for that key gets
\* that instance.
C14_OneInstancePerKey ==
    /\ \A i, j \in 1..Len(dbInstances) :
         (/\ dbInstances[i].init = "done"
          /\ dbInstances[j].init = "done"
          /\ dbInstances[i].cacheKey = dbInstances[j].cacheKey) => i = j
    /\ \A a, b \in DbReturned :
         dbCalls[a].cacheKey = dbCalls[b].cacheKey =>
            dbCalls[a].result = dbCalls[b].result

\* no id occurs twice in a list of ids
Distinct(ids) == \A i, j \in 1..Len(ids) : ids[i] = ids[j] => i = j

\* the set of the elements of a list
Range(f) == { f[k] : k \in 1..Len(f) }

\* C15: when the add, edit and delete requests come one at a time, the ids
\* of the store are pairwise distinct; an add appends a case whose id is 1
\* on an empty store and the largest id plus one otherwise, an edit keeps
\* every id and changes no case but the edited one, and a delete removes
\* the case with the given id and no other.
C15_StoreIdsDistinct ==
    ~storeOverlap =>
        /\ Distinct(IdsOf(questions))
        /\ \A r \in 1..Len(storeReqs) :
             LET read == storeReqs[r].read
                 next == storeReqs[r].next
                 id == storeReqs[r].id
             IN  /\ storeReqs[r].action = "add" =>
                      /\ Len(next) = Len(read) + 1
                      /\ SubSeq(next, 1, Len(read)) = read
                      /\ \A k \in 1..Len(read) : read[k].id < Last(next).id
                      /\ \/ read = << >> /\ Last(next).id = 1
                         \/ \E k \in 1..Len(read) :
                               read[k].id + 1 = Last(next).id
                 /\ storeReqs[r].action = "edit" =>
                      /\ Len(next) = Len(read)
                      /\ \A k \in 1..Len(read) :
                           /\ next[k].id = read[k].id
                           /\ read[k].id # id => next[k] = read[k]
                 /\ storeReqs[r].action = "delete" =>
                      /\ Range(next) = { item \in Range(read) : item.id # id }
                      /\ Len(next) = Len(read) -
                           (IF id \in Range(IdsOf(read)) THEN 1 ELSE 0)
                 /\ r > 1 => read = storeReqs[r - 1].next
        /\ (Len(storeReqs) > 0 /\ Last(storeReqs).pc = "done"
            /\ promo.pc = "idle") =>
              questions = Last(storeReqs).next

\* C15 witness: the first case was deleted and a case then added, one
\* request after the other
C15_Witness ==
    /\ ~storeOverlap
    /\ Len(storeReqs) = 2
    /\ storeReqs[1].action = "delete" /\ storeReqs[1].id = 1
    /\ storeReqs[2].action = "add" /\ storeReqs[2].pc = "done"
    /\ IdsOf(questions) = << MaxCases, MaxCases + 1 >>

\* C16: with requests coming one at a time, every id given to a new case is
\* greater than all the ids given before it.
C16_IdsNeverReused ==
    ~storeOverlap =>
        \A k, m \in 1..Len(assignedIds) :
            k < m => assignedIds[k] < assignedIds[m]

\* the promotion request has been answered with success
Promoted == promo.pc = "done" /\ promo.status = 200

\* the loop directories a promotion is aimed at
PromoTargets ==
    IF promo.loop = AllLoops
    THEN IF promo.directory \in DOMAIN promoStart.resultDirs
         THEN DOMAIN promoStart.resultDirs[promo.directory] ELSE {}
    ELSE {promo.loop}

\* the entry e0 of the loop directory name of directory d, as a promotion
\* that went through leaves it
PromotedEntry(d, name, e0) ==
    IF d = promo.directory /\ name \in PromoTargets
       /\ e0.id = promo.questionId
    THEN [e0 EXCEPT !.score = promo.maxScore]
    ELSE e0

\* C17: a promotion of question q that went through has set the answer of
\* test case q in the store and the score of the entries with id q in
\* every loop's results.json of the run directory (loop 'all') or in the
\* file of the given loop; while it is handled and afterwards, no other
\* test case, no other entry or field and no other run directory differs
\* from what it was when the request came in.
C17_PromotionFrame ==
    promo.pc # "idle" =>
        /\ Len(questions) = Len(promoStart.questions)
        /\ \A k \in 1..Len(questions) :
             /\ questions[k].id = promoStart.questions[k].id
             /\ questions[k].score = promoStart.questions[k].score
             /\ (k # FindIndex(promoStart.questions, promo.questionId)) =>
                   questions[k] = promoStart.questions[k]
             /\ (Promoted
                 /\ k = FindIndex(promoStart.questions, promo.questionId)) =>
                   questions[k].answer = promo.modelAnswer
        /\ DOMAIN resultDirs = DOMAIN promoStart.resultDirs
        /\ \A d \in DOMAIN resultDirs :
             /\ DOMAIN resultDirs[d] = DOMAIN promoStart.resultDirs[d]
             /\ \A name \in DOMAIN resultDirs[d] :
                  LET file == resultDirs[d][name]
                      file0 == promoStart.resultDirs[d][name]
                  IN  /\ file.state = file0.state
                      /\ Len(file.results) = Len(file0.results)
                      /\ \A k \in 1..Len(file.results) :
                           /\ file.results[k] \in
                                { file0.results[k],
                                  PromotedEntry(d, name, file0.results[k]) }
                           /\ Promoted =>
                                file.results[k] =
                                  PromotedEntry(d, name, file0.results[k])
        /\ Promoted => promo.questionId \in Range(IdsOf(promoStart.questions))

\* C17 witness: a promotion of question 1 over all loops went through on a
\* run directory of two loops, and the entry of the second loop has the new
\* score
C17_Witness ==
    /\ Promoted
    /\ promo.loop = AllLoops
    /\ promo.questionId = 1
    /\ promo.loops = << LoopNameOf(1), LoopNameOf(2) >>
    /\ questions[1].answer = "answer"
    /\ resultDirs.runB[LoopNameOf(2)].results[1].score = promo.maxScore
    /\ promoStart.resultDirs.runB[LoopNameOf(2)].results[1].score
         # promo.maxScore
    /\ Len(resultDirs.runB[LoopNameOf(1)].results) = MaxCases

\* C18: after a promotion that went through, every entry of the promoted
\* question in the files it was aimed at has its score equal to its own
\* maxScore field.
C18_PromotedScoreIsEntryMaxScore ==
    Promoted =>
        \A name \in PromoTargets :
            \A e \in Range(resultDirs[promo.directory][name].results) :
                e.id = promo.questionId => e.score = e.maxScore

RECURSIVE AscendingLoops(_)
\* the loop names of a set, by increasing loop number
AscendingLoops(names) ==
    IF names = {} THEN << >>
    ELSE LET first == CHOOSE n \in names :
                         \A m \in names : ParseInt(n) <= ParseInt(m)
         IN  << first >> \o AscendingLoops(names \ {first})

RECURSIVE EntriesOfLoops(_, _)
\* the entries of the readable files of the loops of a directory, loop by
\* loop, each with its loop name
EntriesOfLoops(dir, loopNames) ==
    IF loopNames = << >> THEN << >>
    ELSE (IF dir[loopNames[1]].state = "ok"
          THEN [k \in 1..Len(dir[loopNames[1]].results) |->
                  dir[loopNames[1]].results[k] @@ [loop |-> loopNames[1]]]
          ELSE << >>)
         \o EntriesOfLoops(dir, Tail(loopNames))

\* what the aggregation over all loops of the analysed directory has to
\* return
ExpectedAllLoops ==
    IF analysis.directory \in DOMAIN resultDirs
    THEN EntriesOfLoops(resultDirs[analysis.directory],
                        AscendingLoops(DOMAIN resultDirs[analysis.directory]))
    ELSE << >>

\* C19: the aggregation over all loops of a run directory returns the
\* entries of every loop whose results.json can be read, each with its loop
\* name and in ascending loop order, skipping the loops whose file is
\* missing or corrupt; it fails only when there is no entry at all.
C19_AggregationSkipsBadLoops ==
    (analysis.pc \in {"answered", "done"} /\ analysis.loop = AllLoops) =>
        /\ analysis.success <=> ExpectedAllLoops # << >>
        /\ analysis.success =>
             /\ analysis.results = ExpectedAllLoops
             /\ analysis.isAllLoops

\* C19 witness: loops 1 and 10 are returned, in that order, from a
\* directory whose loop 2 has a corrupt file
C19_Witness ==
    /\ analysis.pc = "answered"
    /\ analysis.loop = AllLoops
    /\ analysis.success
    /\ analysis.loops = << LoopNameOf(1), LoopNameOf(2), LoopNameOf(3) >>
    /\ resultDirs.run[LoopNameOf(2)].state = "corrupt"
    /\ analysis.results[1].loop = LoopNameOf(1)
    /\ Last(analysis.results).loop = LoopNameOf(3)
    /\ Len(analysis.results) = 4 + MaxCases

RECURSIVE ScoreSum(_)
\* the sum of the scores of a list of entries
ScoreSum(entries) ==
    IF entries = << >> THEN 0
    ELSE Head(entries).score + ScoreSum(Tail(entries))

\* C20: the total score shown for the entries of a loop, or of all loops
\* together, is the sum of their scores, and the average score is that
\* total divided by the number of entries; scores 10, 8, 6 and 4 give the
\* total 28 and the average 7.
C20_TotalAndAverage ==
    loopResults.shown =>
        LET n == Len(analysis.results)
        IN  /\ loopResults.totalScore = ScoreSum(analysis.results)
            /\ n > 0 =>
                 /\ loopResults.averageScore.den > 0
                 /\ loopResults.averageScore.num * n =
                      loopResults.totalScore * loopResults.averageScore.den
            /\ [k \in 1..n |-> analysis.results[k].score] = << 10, 8, 6, 4 >>
                 => /\ loopResults.totalScore = 28
                    /\ loopResults.averageScore = [num |-> 7, den |-> 1]

\* C20 witness: the page shows the total 28 and the average 7 for a loop
\* of four entries
C20_Witness ==
    /\ loopResults.shown
    /\ ~analysis.isAllLoops
    /\ Len(analysis.results) = 4
    /\ loopResults.totalScore = 28
    /\ loopResults.averageScore = [num |-> 7, den |-> 1]

\* ---------------------------------------------------------------- chunker
\* the number of characters of paragraph p in the text that are not
\* whitespace
RECURSIVE InkOf(_, _)
InkOf(text, p) ==
    IF text = << >> THEN 0
    ELSE (IF Head(text).p = p /\ ~IsSpace(Head(text)) THEN Head(text).n ELSE 0)
         + InkOf(Tail(text), p)

\* the runs at which a stretch of whitespace with a blank line in it begins:
\* whitespace that is not preceded by whitespace and holds two line feeds
\* before the next character that is not whitespace
BlankLineGaps(text) ==
    {i \in 1..Len(text) :
       /\ IsSpace(text[i])
       /\ i = 1 \/ ~IsSpace(text[i - 1])
       /\ \E j, k \in i..Len(text) :
            /\ j < k
            /\ text[j].c = "nl"
            /\ text[k].c = "nl"
            /\ \A m \in i..k : IsSpace(text[m])}

\* the paragraphs of the text that blank lines separate: the maximal
\* stretches that reach from one blank-line gap (or an end of the text) to
\* the next and hold a character that is not whitespace
BlankLineParagraphs(text) ==
    {i \in 1..Len(text) :
       /\ ~IsSpace(text[i])
       /\ \A j \in 1..(i - 1) :
            ~IsSpace(text[j]) =>
              \E g \in BlankLineGaps(text) : j < g /\ g < i}

\* the QA markers of the text
QaMarkers(text) == {i \in 1..Len(text) : text[i].c = "q"}

\* the strategy that is to fire when the text has m markers and n of what
\* is counted besides (paragraphs, or blank lines)
StrategyFor(m, n) == IF m > 5 /\ n > 5 THEN 1 ELSE IF n >= 3 THEN 2 ELSE 3

\* C21: whatever the text and whichever strategy fired, every chunk that
\* universalChunker returns is longer than 10 characters once trimmed.
C21_ChunksLongerThanTen ==
    chunker.pc = "returned" =>
      \A k \in 1..Len(chunker.chunks) :
        TextLen(Trim(chunker.chunks[k])) > 10

\* the QA strategy has returned chunks and has dropped a paragraph of ten
\* characters
C21_Witness ==
    /\ chunker.pc = "returned"
    /\ chunker.strategy = 1
    /\ chunker.chunks # << >>
    /\ \E p \in 1..MaxParas :
         /\ InkOf(chunker.content, p) = MinChunkLength
         /\ \A k \in 1..Len(chunker.chunks) : InkOf(chunker.chunks[k], p) = 0

\* C22 as it is stated: the QA strategy fires when the text has more than 5
\* QA markers and more than 5 paragraphs separated by blank lines, else the
\* paragraph strategy when it has at least 3 such paragraphs, else the
\* default strategy.
C22_StrategyByParagraphs ==
    chunker.pc = "returned" =>
      chunker.strategy =
        StrategyFor(Cardinality(QaMarkers(chunker.content)),
                    Cardinality(BlankLineParagraphs(chunker.content)))

\* C22 (amended): exactly one strategy fires, first match wins: the QA
\* strategy when the text has more than 5 QA markers and more than 5 blank
\* lines (stretches of whitespace holding two line feeds), else the
\* paragraph strategy when it has at least 3 blank lines, else the default
\* strategy.
C22_StrategyByBlankLines ==
    chunker.pc = "returned" =>
      chunker.strategy =
        StrategyFor(Cardinality(QaMarkers(chunker.content)),
                    Cardinality(BlankLineGaps(chunker.content)))

\* six paragraphs with a QA marker each, five blank lines between them: the
\* paragraph strategy has fired
C22_Witness ==
    /\ chunker.pc = "returned"
    /\ Cardinality(QaMarkers(chunker.content)) = 6
    /\ Cardinality(BlankLineParagraphs(chunker.content)) = 6
    /\ Cardinality(BlankLineGaps(chunker.content)) = 5
    /\ chunker.strategy = 2

\* C23: the chunks returned hold all of the text that is not whitespace:
\* of every paragraph of the input, the chunks together hold at least as
\* many characters as the paragraph has.
C23_NoContentLost ==
    chunker.pc = "returned" =>
      \A p \in 1..MaxParas :
        InkOf(Concat(chunker.chunks), p) >= InkOf(chunker.content, p)

\* ------------------------------------------------- hosted backend: seed
\* the upload calls made for the file at position pos of the listing
UploadsOf(pos) ==
    {k \in 1..Len(seedLog.uploads) : seedLog.uploads[k].pos = pos}

\* C24: a file is uploaded at most 3 times; the k-th retry comes after a
\* wait of 2 s times k; after the third failure the seed goes on to the
\* next file, it does not raise, and when it returns it has tried every
\* file that has an ASCII name and a MIME type.
C24_UploadRetries ==
    /\ \A pos \in 1..Len(seed.files) :
         /\ Cardinality(UploadsOf(pos)) <= 3
         /\ Cardinality(UploadsOf(pos)) = 3 /\ seed.pos = pos
              => seed.pc \in {"poll", "get"}
    /\ \A k \in 1..Len(seedLog.uploads) :
         LET u == seedLog.uploads[k]
         IN /\ u.attempts = Cardinality({j \in UploadsOf(u.pos) : j < k})
            /\ u.waited = 2000 * u.attempts
    /\ seed.pc = "thrown" => seedLog.uploads = << >>
    /\ seed.pc = "returned" =>
         \A pos \in 1..Len(seed.files) :
           ~NonAscii(seed.files[pos]) /\ HasMimeType(seed.files[pos])
             => UploadsOf(pos) # {}

\* the seed has returned; the first file failed three times and the
\* second one was uploaded
C24_Witness ==
    /\ seed.pc = "returned"
    /\ Cardinality(UploadsOf(1)) = 3
    /\ 1 \notin seedLog.succeeded
    /\ 2 \in seedLog.succeeded

\* C30: seeding through the hosted backend terminates: the seed call
\* returns or throws.
C30_SeedTerminates == <>(seed.pc \in {"returned", "thrown"})

\* C25: on every backend, a queryDocuments(query, topK) that returns
\* answers at most topK documents, and no document of the answer has a
\* greater similarity than the document before it.
C25_QueryAtMostTopKDescending ==
    (backendCall.op = "query" /\ backendCall.result = "returned") =>
      /\ Len(backendCall.answer) <= backendCall.topK
      /\ \A i \in 1..(Len(backendCall.answer) - 1) :
           backendCall.answer[i].similarity >=
             backendCall.answer[i + 1].similarity

\* a query of a collection that holds more than topK documents is answered
\* with topK documents of different similarities
C25_Witness ==
    /\ backendCall.backend = "CHROMA"
    /\ backendCall.op = "query"
    /\ backendCall.result = "returned"
    /\ Len(chromaDb.docs) > backendCall.topK
    /\ Len(backendCall.answer) = backendCall.topK
    /\ \E i \in 1..(Len(backendCall.answer) - 1) :
         backendCall.answer[i].similarity >
           backendCall.answer[i + 1].similarity

\* C26: the list rerankDocuments returns is in descending order of score,
\* is no longer than the list it was given, and each of its indexes is a
\* position of that list.
C26_RerankSortedWithinInput ==
    (rerankCall.pc \in {"returned", "assembled"}) =>
      /\ Len(rerankCall.rerankedResults) <= rerankCall.documents
      /\ \A i \in 1..(Len(rerankCall.rerankedResults) - 1) :
           rerankCall.rerankedResults[i].score >=
             rerankCall.rerankedResults[i + 1].score
      /\ \A i \in 1..Len(rerankCall.rerankedResults) :
           rerankCall.rerankedResults[i].index \in
             0..(rerankCall.documents - 1)

\* C27: on every backend, a migrate() that returns leaves the store in
\* existence and empty whatever it held before, and every migrate() that
\* returns after it leaves the store as the first one left it.
C27_MigrateLeavesEmptyStore ==
    /\ (backendCall.op = "migrate" /\ backendCall.result = "returned") =>
         CASE backendCall.backend = "POSTGRES" ->
                pgDb.tables /\ pgDb.chunks = << >>
           [] backendCall.backend = "CHROMA" ->
                chromaDb.collection /\ chromaDb.exists
                  /\ chromaDb.docs = << >>
           [] backendCall.backend = "GOOGLE" ->
                TargetStores(gStore.stores) = << << >> >>
    /\ \A k \in 1..Len(migrations) : migrations[k] = migrations[1]

\* C28: when the retrieval and the rerank have both returned, the context
\* is made of those of the first 3 reranked results whose score is at
\* least 0.8 (8 tenths), in their order; when none of them is and the
\* retrieval returned a chunk, it is made of the first 3 retrieved chunks;
\* the prompt is the raw question only when the retrieval returned
\* nothing; and the context never has more than 3 chunks.
C28_ContextOfRerank ==
    (rerankCall.pc = "assembled") =>
      LET results == rerankCall.rerankedResults
          n == rerankCall.documents
          context == rerankCall.context
          qualifying == {k \in 1..Min(3, Len(results)) : results[k].score >= 8}
          Nth(i) == CHOOSE k \in qualifying :
                      Cardinality({j \in qualifying : j <= k}) = i
      IN /\ qualifying # {} =>
              /\ Len(context) = Cardinality(qualifying)
              /\ \A i \in 1..Len(context) :
                   context[i] = results[Nth(i)].index
         /\ (qualifying = {} /\ n > 0) =>
              context = [i \in 1..Min(3, n) |-> i - 1]
         /\ (context = RawQuestion) <=> (n = 0)
         /\ Len(context) <= 3

\* four results came back, the first below 0.8, the second at 0.8 and the
\* fourth at 0.8 too: the context is the chunk of the second alone, or of
\* the second and the third
C28_Witness ==
    /\ rerankCall.pc = "assembled"
    /\ Len(rerankCall.rerankedResults) = 4
    /\ rerankCall.rerankedResults[1].score < 8
    /\ rerankCall.rerankedResults[2].score = 8
    /\ rerankCall.rerankedResults[4].score = 8
    /\ Len(rerankCall.context) \in {1, 2}
    /\ rerankCall.context[1] = rerankCall.rerankedResults[2].index

\* C29: once the client has aborted, no attempt of a work-model or
\* score-model call is started: a safeModelCall that was under way at the
\* abort makes at most the one attempt that was in flight, and no other
\* safeModelCall makes any.
C29_NoAttemptAfterCancel ==
    (aborted /\ CallOf(pc) # "none") =>
      IF abortSnapshot.call = CallOf(pc)
      THEN callsMade <= abortSnapshot.calls + 1
      ELSE callsMade = 0

\* C31: a vectorize request with force = false deletes no remote store, and
\* when the store was there at its check it is answered 409 without
\* having run migrate or seed, whatever other requests for the same store
\* name do meanwhile.
C31_NoForceNoDelete ==
    \A r \in 1..Len(vectorize) :
      ~vectorize[r].force =>
        /\ vectorize[r].deleted = {}
        /\ (vectorize[r].pc # "check" /\ vectorize[r].existed) =>
             (vectorize[r].pc = "done" /\ vectorize[r].status = 409)

\* the update events of a run, in order
UpdateEvents == SelectSeq(events, LAMBDA e : e.type = "update")

\* C32: every update event of a run has a progress from 0 to 100; from
\* one update event to the next both progress and currentTask grow; and
\* currentTask is never more than 2 * the number of test cases * loopCount.
C32_ProgressGrows ==
    LET updates == UpdateEvents
    IN /\ \A k \in 1..Len(updates) :
            /\ updates[k].progress.den > 0
            /\ 0 <= updates[k].progress.num
            /\ updates[k].progress.num <= 100 * updates[k].progress.den
            /\ updates[k].currentTask <= 2 * Len(testCases) * loopCount
       /\ \A k \in 1..(Len(updates) - 1) :
            /\ updates[k].currentTask < updates[k + 1].currentTask
            /\ updates[k].progress.num * updates[k + 1].progress.den
                 < updates[k + 1].progress.num * updates[k].progress.den

\* a run of two loops of one test case has ended with its fourth update
\* event at 100
C32_Witness ==
    /\ closed
    /\ loopCount = 2
    /\ Len(UpdateEvents) = 4
    /\ Last(UpdateEvents).currentTask = 4
    /\ Last(UpdateEvents).progress.num = 100 * Last(UpdateEvents).progress.den

\* C33: every entry written to a results.json has a score that is a whole
\* number from 0 to its maxScore, the score of its test case, whatever the
\* text of the score model.
C33_ScoreWithinMaxScore ==
    \A l \in 1..Len(files) :
      \A k \in 1..Len(files[l]) :
        /\ files[l][k].score \in 0..files[l][k].maxScore
        /\ \E t \in 1..Len(testCases) :
             /\ testCases[t].id = files[l][k].id
             /\ testCases[t].score = files[l][k].maxScore

\* C34: the renaming of the seed gives different files different names:
\* every file that readdir listed is still in the knowledge directory,
\* with its content, under its old or its new name, and no two files have
\* come to one name.
C34_RenameKeepsFiles ==
    (seed.pc \notin {"idle", "start", "readdir", "thrown"}) =>
      /\ \A k \in 1..Len(seed.files) :
           \E f \in knowledge.files :
             /\ f.content = seed.files[k]
             /\ f.name \in {seed.files[k], NewFileName(seed.files[k])}
      /\ Cardinality(knowledge.files) = Len(seed.files)

\* C35: every score of a results.json that a run has written to a loop
\* directory of its run directory is among the scores analyzeDirectory
\* gathers for that run directory.
C35_AggregationHasEveryScore ==
    (analysis.pc = "aggregated" /\ analysis.success) =>
      \A loopName \in DOMAIN resultDirs[analysis.directory] :
        Readable(resultDirs, analysis.directory, loopName) =>
          \A k \in 1..Len(resultDirs[analysis.directory][loopName].results) :
            \E name \in DOMAIN analysis.frameworkScores :
              \E i \in 1..Len(analysis.frameworkScores[name]) :
                analysis.frameworkScores[name][i] =
                  resultDirs[analysis.directory][loopName].results[k].score

\* C36: on every backend, the seed() calls of the same directory that
\* return one after the other leave the store with the same chunks: the
\* second call leaves what the first left, no chunk a second time.
C36_SeedTwiceAsOnce ==
    \A k \in 1..Len(seedings.left) : seedings.left[k] = seedings.left[1]

\* C37: when two add requests are handled with the read of the one between
\* the read and the write of the other, then once both are answered the
\* store holds both new cases, under ids that differ from each other and
\* from every other id of the store.
C37_ConcurrentAddsBothStored ==
    (/\ storeOverlap
     /\ Len(storeReqs) = 2
     /\ \A r \in 1..2 : storeReqs[r].action = "add" /\ storeReqs[r].pc = "done"
     /\ promo.pc = "idle") =>
        /\ Len(questions) = Len(storeReqs[1].read) + 2
        /\ Distinct(IdsOf(questions))
        /\ assignedIds[Len(assignedIds)] # assignedIds[Len(assignedIds) - 1]

\* C38: runs that go on side by side, started in the same second or not,
\* have run directories of their own: the results.json a run has written
\* stays the one of that run, and its log.txt holds no line of another run.
C38_RunsHaveOwnDirectories ==
    \A r, q \in 1..Len(twoRuns.runs) :
        LET dir == twoRuns.dirs[twoRuns.runs[r].dir]
        IN  /\ r # q => twoRuns.runs[r].dir # twoRuns.runs[q].dir
            /\ twoRuns.runs[r].pc = "done" => dir.results = r
            /\ \A k \in 1..Len(dir.log) : dir.log[k] = r

\* C39: a promotion request that is answered with an error (a parameter is
\* missing, the question id or the loop directory is unknown, or the
\* results.json of a loop is absent or unparsable) leaves the test-case
\* store and every results.json as they were when the request came in.
C39_FailedPromotionChangesNothing ==
    (promo.pc = "done" /\ promo.status # 200) =>
        /\ questions = promoStart.questions
        /\ resultDirs = promoStart.resultDirs

====
